---- MODULE Spec2Model ----
(***************************************************************************)
(* A model of rotkehlchen/chain/zksync_lite/manager.py (ZksyncLiteManager): *)
(* the REST client with its backoff loop, the token directory, the          *)
(* transaction normalizer, the paginated walk with its range watermark and  *)
(* the fetch policy of fetch_transactions.                                  *)
(*                                                                         *)
(* Python values are represented as follows.                               *)
(*   - A dict is a function whose DOMAIN is the set of its keys.            *)
(*   - A key that is absent from a raw API dict is the sentinel NoKey (for  *)
(*     string values) or NoInt (for integer values); a value that is there  *)
(*     but cannot be parsed is BadAddress / BadInt.                         *)
(*   - None is NoAsset / NoneAddr / NoFee / the empty sequence, by type.    *)
(*   - An FVal amount is held in fixed point: the integer number of         *)
(*     10^-MaxDecimals units, so raw / 10^decimals is exact.                *)
(***************************************************************************)
EXTENDS Integers, Sequences, FiniteSets, Bags, TLC

VARIABLES
    \* ---- storage and manager fields (shared by all specifications)
    db,                 \* rows of table zksynclite_transactions
    swaps,              \* rows of table zksynclite_swaps
    ranges,             \* table used_query_ranges: location string -> range
    savePrefix,         \* value of ZKSYNCLITE_TX_SAVEPREFIX (set outside this file)
    id_to_token,        \* self.id_to_token
    symbol_to_token,    \* self.symbol_to_token
    \* ---- fetch_transactions and the walk it is running
    fpc,                \* position of fetch_transactions
    outcome,            \* how the fetch_transactions call ended
    queried_range,      \* local variable queried_range of fetch_transactions
    plan,               \* the walks still to be made by this call
    walk,               \* parameters of the walk being made
    walkLog,            \* the walks begun so far by this call, in order
    from_hash,          \* cursor of the next page request
    last_tx_hash,       \* txHash of the last entry that was normalized
    current_start_ts,
    current_end_ts,
    input_transactions, \* transactions already persisted by this walk
    nPages,             \* page requests made by this walk
    prevPage,           \* raw rows of the page before the last one
    curPage,            \* raw rows of the last page received
    prevBatch,          \* batch yielded for prevPage
    curBatch,           \* batch yielded for curPage
    handed,             \* transactions handed to the storage insert by this walk
    lastStep,           \* what the last step of the walk did
    \* ---- one _query_api call and the loop that called it
    apiMode,            \* behaviour of the remote server
    apiPc,              \* position inside _query_api / its caller
    backoff,            \* local variable backoff of _query_api
    sleeps,             \* the gevent.sleep arguments of this call, in order
    nRequests,          \* session.get calls made by the caller so far
    apiResult,          \* what _query_api handed to its caller
    callerOutcome,      \* how the calling loop ended
    callerBatches,      \* number of batches the calling walk yielded
    lastHttp,           \* what the last session.get of the call came back with
    \* ---- the token directory driven lookup by lookup
    tokPc,              \* position of the lookup in progress
    tokFromIdx,         \* local variable from_idx of _create_tokens_mapping
    tokRequests,        \* token-listing requests made by the lookup in progress
    tokDone,            \* a token-listing pagination has run to completion
    tokLate,            \* listing requests made by lookups after that completion
    tokAnswer,          \* the lookup in progress or the last one, and its result
    tokLookups,         \* number of lookups made on this manager
    \* ---- decode_transaction and decode_undecoded_transactions
    history_events,     \* rows of table history_events
    tracked_addresses,  \* the tracked zksync lite accounts
    force_redecode,     \* argument of the pass in progress
    dpc,                \* position of the decoding caller
    dTransactions,      \* local variable transactions: the records held, in order
    tx_index,           \* index of the record being processed (from 1)
    lastDecode,         \* the record before and after the last decode, its events
    decodeLog,          \* what each decode so far emitted (SpecDecode) or the
                        \* hashes decoded by the pass so far (SpecBulk)
    dOutcome,           \* how the last pass ended
    nPasses,            \* passes of decode_undecoded_transactions begun
    \* ---- query_single_transaction and the insert it ends with
    spc,                \* position of query_single_transaction
    sResponse,          \* what _query_api handed back (line 451)
    sTx,                \* the record the normalizer built (line 460)
    sOutcome,           \* how the call ended: None, tx or an exception
    lastrowid,          \* write_cursor.lastrowid of the INSERT (line 478)
    write_lock,         \* a user_write context is open
    nCalls,             \* calls of query_single_transaction begun
    \* ---- the remote server, where a specification fixes what it holds
    history             \* the account's transactions on the server, newest first

storeVars == <<db, swaps, ranges, savePrefix, id_to_token, symbol_to_token>>
fetchVars == <<fpc, outcome, queried_range, plan, walk, walkLog, from_hash, last_tx_hash,
               current_start_ts, current_end_ts, input_transactions, nPages,
               prevPage, curPage, prevBatch, curBatch, handed, lastStep>>
apiVars   == <<apiMode, apiPc, backoff, sleeps, nRequests, apiResult,
               callerOutcome, callerBatches, lastHttp>>
tokVars   == <<tokPc, tokFromIdx, tokRequests, tokDone, tokLate, tokAnswer,
               tokLookups>>
decVars   == <<history_events, tracked_addresses, force_redecode, dpc,
               dTransactions, tx_index, lastDecode, decodeLog, dOutcome,
               nPasses>>
singleVars == <<spc, sResponse, sTx, sOutcome, lastrowid, write_lock, nCalls>>
serverVars == <<history>>
vars      == <<storeVars, fetchVars, apiVars, tokVars, decVars, singleVars,
               serverVars>>

----------------------------------------------------------------------------
(* Sentinels and small value sets                                          *)

NoKey      == "<nokey>"       \* the dict has no such key (KeyError on access)
NoInt      == 0 - 1             \* same, for an integer-valued key
BadInt     == 0 - 2             \* a string that is no decimal integer
BadAddress == "<badaddr>"     \* a string that is no EVM address
NoneAddr   == "<none>"        \* Python None for an address field
NoAsset    == "<noasset>"     \* Python None for an asset
NoFee      == 0 - 1             \* Python None for the fee field
NoRange    == <<>>            \* get_used_query_range returned None

ZERO_ADDRESS == "0x0"
ZERO         == 0

\* Page size of the two paginated endpoints (ZKSYNCLITE_MAX_LIMIT), scaled down.
ZKSYNCLITE_MAX_LIMIT == 2

\* Largest decimal precision of a modelled asset: the fixed-point unit of
\* amounts is 10^-MaxDecimals.
MaxDecimals == 2

EmptyDict == [k \in {} |-> NoAsset]

DictSet(d, k, v) == [x \in (DOMAIN d) \cup {k} |-> IF x = k THEN v ELSE d[x]]

DictGet(d, k) == IF k \in DOMAIN d THEN d[k] ELSE NoAsset

RECURSIVE Pow10(_)
Pow10(n) == IF n = 0 THEN 1 ELSE 10 * Pow10(n - 1)

Range(s) == {s[i] : i \in 1..Len(s)}

\* Decimal precision of the assets the model knows.
AssetDecimals(asset) == IF asset = "ETH" THEN 2 ELSE 1

\* raw / 10^decimals, in units of 10^-MaxDecimals
asset_normalized_value(amount, asset) ==
    amount * Pow10(MaxDecimals - AssetDecimals(asset))

\* deserialize_int_from_str: the integer, or DeserializationError
IntParses(v) == v >= 0

----------------------------------------------------------------------------
(* TokenDirectory: _create_tokens_mapping, _get_token_by_id/_by_symbol      *)

\* The token registry: the asset of an ERC20-conformant address; any other
\* address makes get_or_create_evm_token raise NotERC20Conformant.
get_or_create_evm_token(address) ==
    IF address = "0xT1" THEN "TOK" ELSE NoAsset

\* Rows the token-listing endpoint can return.
TokETH    == [id |-> 0, symbol |-> "ETH", address |-> ZERO_ADDRESS]
TokTOK    == [id |-> 1, symbol |-> "TOK", address |-> "0xT1"]
TokNFT    == [id |-> 2, symbol |-> "NFT", address |-> "0xNFT"]
TokNoSym  == [id |-> 3, symbol |-> NoKey, address |-> "0xT1"]

TokenRows == {TokETH, TokTOK, TokNFT, TokNoSym}

\* Body of the for loop of _create_tokens_mapping for one entry; c is the
\* pair of dicts [ids, syms].
TokenEntryStep(c, entry) ==
    IF entry.id = NoInt \/ entry.symbol = NoKey \/ entry.address = NoKey
    THEN c                                          \* KeyError: continue
    ELSE IF entry.address = BadAddress
    THEN c                                          \* DeserializationError
    ELSE LET asset == IF entry.address = ZERO_ADDRESS
                      THEN "ETH"
                      ELSE get_or_create_evm_token(entry.address)
         IN  IF asset = NoAsset
             THEN c                                 \* NotERC20Conformant
             ELSE [ids  |-> DictSet(c.ids, entry.id, asset),
                   syms |-> DictSet(c.syms, entry.symbol, asset)]

RECURSIVE TokenEntries(_, _, _)
TokenEntries(c, result, i) ==
    IF i > Len(result) THEN c
    ELSE TokenEntries(TokenEntryStep(c, result[i]), result, i + 1)

\* A response of _query_api as its caller sees it: the call raised
\* RemoteError, or returned a dict that has a 'list' or has none.
RespRaise     == [raised |-> TRUE,  hasList |-> FALSE, list |-> <<>>]
RespNoList    == [raised |-> FALSE, hasList |-> FALSE, list |-> <<>>]
RespList(l)   == [raised |-> FALSE, hasList |-> TRUE,  list |-> l]

\* End of one iteration of the while loop of _create_tokens_mapping: c2 is
\* the cache after the for loop over result (lines 255-259).
TokensPageEnd(c2, from_idx, result) ==
    IF Len(result) < ZKSYNCLITE_MAX_LIMIT
    THEN [cache |-> c2, from_idx |-> from_idx, state |-> "done"]
    ELSE IF result[Len(result)].id = NoInt
    THEN [cache |-> c2, from_idx |-> from_idx, state |-> "KeyError"]
    ELSE [cache |-> c2, from_idx |-> result[Len(result)].id, state |-> "more"]

\* One iteration of the while loop of _create_tokens_mapping on response r.
TokensPageStep(c, from_idx, r) ==
    IF r.raised \/ ~r.hasList
    THEN [cache |-> c, from_idx |-> from_idx, state |-> "RemoteError"]
    ELSE TokensPageEnd(TokenEntries(c, r.list, IF from_idx = 0 THEN 1 ELSE 2),
                       from_idx, r.list)

\* The whole of _create_tokens_mapping against a server that answers the
\* i-th listing request with pages[i] (and fails once pages is used up);
\* s is the outcome of the i-th iteration.
RECURSIVE CreateTokensFrom(_, _, _, _)
CreateTokensNext(s, pages, i) ==
    IF s.state = "more"
    THEN CreateTokensFrom(s.cache, s.from_idx, pages, i + 1)
    ELSE [cache |-> s.cache, state |-> s.state, requests |-> i]

CreateTokensFrom(c, from_idx, pages, i) ==
    CreateTokensNext(
        TokensPageStep(c, from_idx,
                       IF i > Len(pages) THEN RespRaise ELSE pages[i]),
        pages, i)

_create_tokens_mapping(c, pages) == CreateTokensFrom(c, 0, pages, 1)

\* The return of _get_token_by_id after _create_tokens_mapping ended as m.
LookupAfterMapping(m, token_id) ==
    IF m.state = "done"
    THEN [cache |-> m.cache, asset |-> DictGet(m.cache.ids, token_id),
          state |-> "ok", requests |-> m.requests]
    ELSE [cache |-> m.cache, asset |-> NoAsset, state |-> m.state,
          requests |-> m.requests]

\* _get_token_by_id: [cache, asset, state]; state is "ok" or the exception
\* that left _create_tokens_mapping.
_get_token_by_id(c, pages, token_id) ==
    IF DOMAIN c.ids = {}
    THEN LookupAfterMapping(_create_tokens_mapping(c, pages), token_id)
    ELSE [cache |-> c, asset |-> DictGet(c.ids, token_id), state |-> "ok",
          requests |-> 0]

\* The emptiness test that opens _get_token_by_id (line 262) and
\* _get_token_by_symbol (line 268).
MappingIsEmpty(c, kind) ==
    IF kind = "id" THEN DOMAIN c.ids = {} ELSE DOMAIN c.syms = {}

\* The dict.get that closes _get_token_by_id (line 265) and
\* _get_token_by_symbol (line 271).
MappingGet(c, kind, key) ==
    IF kind = "id" THEN DictGet(c.ids, key) ELSE DictGet(c.syms, key)

----------------------------------------------------------------------------
(* TransactionNormalizer: _deserialize_zksync_transaction                   *)

TxTypes == {"Deposit", "Withdraw", "Transfer", "ChangePubKey", "ForcedExit",
            "FullExit", "Swap"}

\* An 'op' dict with no key at all, and a raw entry with no key at all.
BaseOp == [type |-> NoKey, from |-> NoKey, to |-> NoKey, account |-> NoKey,
           target |-> NoKey, token |-> NoInt, tokenId |-> NoInt,
           feeToken |-> NoInt, amount |-> NoInt, fee |-> NoInt,
           ethHash |-> NoKey, hasOrders |-> FALSE, orders |-> <<>>]

BaseEntry == [txHash |-> NoKey, status |-> NoKey, blockNumber |-> NoInt,
              createdAt |-> NoInt, hasOp |-> FALSE, op |-> BaseOp]

NoSwap == <<>>

NoTx == [tx_hash |-> NoKey, tx_type |-> NoKey, timestamp |-> NoInt,
         block_number |-> NoInt, from_address |-> NoneAddr,
         to_address |-> NoneAddr, asset |-> NoAsset, amount |-> ZERO,
         fee |-> NoFee, swap_data |-> NoSwap]

\* Results of the normalizer: a record, None, or an exception that leaves it.
\* cache is the token directory as the call leaves it.
RNone(c)       == [kind |-> "none",  exc |-> "",  cache |-> c, tx |-> NoTx]
RRaise(c, exc) == [kind |-> "raise", exc |-> exc, cache |-> c, tx |-> NoTx]
RTx(c, tx)     == [kind |-> "tx",    exc |-> "",  cache |-> c, tx |-> tx]

\* deserialize_evm_address: the address, or KeyError (absent) or
\* DeserializationError (malformed); both are caught by the caller.
AddressOk(a) == a # NoKey /\ a # BadAddress

\* _get_token_and_amount_by_id_or_log once the lookup returned g
\* (lines 79-93).
TokenAndAmount(g, amountVal, useAmount) ==
    IF g.state # "ok"
    THEN [kind |-> "raise", exc |-> g.state, cache |-> g.cache,
          asset |-> NoAsset, amount |-> ZERO]
    ELSE IF g.asset = NoAsset
    THEN [kind |-> "none", exc |-> "", cache |-> g.cache,
          asset |-> NoAsset, amount |-> ZERO]
    ELSE IF ~useAmount
    THEN [kind |-> "ok", exc |-> "", cache |-> g.cache,
          asset |-> g.asset, amount |-> ZERO]
    ELSE IF ~IntParses(amountVal)
    THEN [kind |-> "none", exc |-> "", cache |-> g.cache,
          asset |-> NoAsset, amount |-> ZERO]
    ELSE [kind |-> "ok", exc |-> "", cache |-> g.cache, asset |-> g.asset,
          amount |-> asset_normalized_value(amountVal, g.asset)]

\* _get_token_and_amount_by_id_or_log(entry, asset_key, amount_key) with
\* assetId = entry['op'][asset_key], amountVal = entry['op'][amount_key] and
\* useAmount = (amount_key is not None).
_get_token_and_amount_by_id_or_log(c, pages, assetId, amountVal, useAmount) ==
    IF assetId = NoInt
    THEN [kind |-> "none", exc |-> "", cache |-> c, asset |-> NoAsset,
          amount |-> ZERO]
    ELSE TokenAndAmount(_get_token_by_id(c, pages, assetId), amountVal,
                        useAmount)

\* The for idx in (0, 1) loop of the SWAP branch: legs so far in acc; g is
\* the lookup of the sell token of order idx (lines 354-364).
RECURSIVE SwapLegs(_, _, _, _, _)
SwapLegNext(g, pages, op, idx, acc) ==
    IF g.state # "ok"
    THEN [kind |-> "raise", exc |-> g.state, cache |-> g.cache, legs |-> acc]
    ELSE IF g.asset = NoAsset \/ ~IntParses(op.orders[idx].amount)
    THEN [kind |-> "none", exc |-> "", cache |-> g.cache, legs |-> acc]
    ELSE SwapLegs(g.cache, pages, op, idx + 1,
                  Append(acc, [asset  |-> g.asset,
                               amount |-> asset_normalized_value(
                                            op.orders[idx].amount, g.asset)]))

SwapLegs(c, pages, op, idx, acc) ==
    IF idx > 2 THEN [kind |-> "ok", exc |-> "", cache |-> c, legs |-> acc]
    ELSE IF ~op.hasOrders
    THEN [kind |-> "none", exc |-> "", cache |-> c, legs |-> acc]
    ELSE IF idx > Len(op.orders)
    THEN [kind |-> "raise", exc |-> "IndexError", cache |-> c, legs |-> acc]
    ELSE IF op.orders[idx].tokenSell = NoInt
    THEN [kind |-> "none", exc |-> "", cache |-> c, legs |-> acc]
    ELSE SwapLegNext(_get_token_by_id(c, pages, op.orders[idx].tokenSell),
                     pages, op, idx, acc)

\* The constructor call of the else branch (lines 389-400): fee is None when
\* fee_raw is None or zero.
MakeTx(tx_hash, entry, from_address, to_address, asset, amount, swap_data) ==
    [tx_hash |-> tx_hash, tx_type |-> entry.op.type,
     timestamp |-> entry.createdAt, block_number |-> entry.blockNumber,
     from_address |-> from_address, to_address |-> to_address,
     asset |-> asset, amount |-> amount,
     fee |-> IF entry.op.fee = NoInt \/ entry.op.fee = 0
             THEN NoFee ELSE asset_normalized_value(entry.op.fee, asset),
     swap_data |-> swap_data]

\* End of a branch whose token and amount came back as a.
FinishTx(a, tx_hash, entry, from_address, to_address) ==
    IF a.kind = "raise" THEN RRaise(a.cache, a.exc)
    ELSE IF a.kind = "none" THEN RNone(a.cache)
    ELSE RTx(a.cache, MakeTx(tx_hash, entry, from_address, to_address,
                             a.asset, a.amount, NoSwap))

\* Mutant: the amount that came back with the token is kept.
FinishChangePubKey_FeeAsAmount(a, entry) ==
    IF a.kind = "raise" THEN RRaise(a.cache, a.exc)
    ELSE IF a.kind = "none" THEN RNone(a.cache)
    ELSE RTx(a.cache, MakeTx(entry.txHash, entry, entry.op.account, NoneAddr,
                             a.asset, a.amount, NoSwap))

\* End of the CHANGEPUBKEY branch: only the asset is taken, amount stays ZERO
\* (line 314).
FinishChangePubKey(a, entry) ==
    IF a.kind = "raise" THEN RRaise(a.cache, a.exc)
    ELSE IF a.kind = "none" THEN RNone(a.cache)
    ELSE RTx(a.cache, MakeTx(entry.txHash, entry, entry.op.account, NoneAddr,
                             a.asset, ZERO, NoSwap))

\* End of the SWAP branch once the legs came back as l (lines 366-371).
FinishSwapLegs(l, asset, amount, entry, concerning_address) ==
    IF l.kind = "raise" THEN RRaise(l.cache, l.exc)
    ELSE IF l.kind = "none" THEN RNone(l.cache)
    ELSE RTx(l.cache,
             MakeTx(entry.txHash, entry, concerning_address,
                    concerning_address, asset, amount,
                    <<[from_asset  |-> l.legs[1].asset,
                       from_amount |-> l.legs[1].amount,
                       to_asset    |-> l.legs[2].asset,
                       to_amount   |-> l.legs[2].amount]>>))

\* The SWAP branch once the fee token and fee came back as a.
FinishSwap(a, pages, entry, concerning_address) ==
    IF a.kind = "raise" THEN RRaise(a.cache, a.exc)
    ELSE IF a.kind = "none" THEN RNone(a.cache)
    ELSE FinishSwapLegs(SwapLegs(a.cache, pages, entry.op, 1, <<>>),
                        a.asset, a.amount, entry, concerning_address)

\* The per-type branches (lines 299-378), entered once the common keys were
\* read.
DeserializeByType(c, pages, entry, concerning_address) ==
    CASE entry.op.type = "Deposit" ->
           IF ~AddressOk(entry.op.from) \/ ~AddressOk(entry.op.to)
           THEN RNone(c)
           ELSE FinishTx(_get_token_and_amount_by_id_or_log(
                             c, pages, entry.op.tokenId, entry.op.amount, TRUE),
                         entry.txHash, entry, entry.op.from, entry.op.to)
      [] entry.op.type = "ChangePubKey" ->
           IF ~AddressOk(entry.op.account) THEN RNone(c)
           ELSE FinishChangePubKey(_get_token_and_amount_by_id_or_log(
                             c, pages, entry.op.feeToken, entry.op.fee, TRUE),
                         entry)
      [] entry.op.type = "ForcedExit" ->
           IF ~AddressOk(entry.op.target) THEN RNone(c)
           ELSE FinishTx(_get_token_and_amount_by_id_or_log(
                             c, pages, entry.op.token, NoInt, FALSE),
                         entry.txHash, entry, concerning_address,
                         entry.op.target)
      [] entry.op.type = "FullExit" ->
           IF entry.op.ethHash = NoKey THEN RNone(c)
           ELSE FinishTx(_get_token_and_amount_by_id_or_log(
                             c, pages, entry.op.tokenId, NoInt, FALSE),
                         entry.op.ethHash, entry, concerning_address,
                         concerning_address)
      [] entry.op.type = "Swap" ->
           FinishSwap(_get_token_and_amount_by_id_or_log(
                          c, pages, entry.op.feeToken, entry.op.fee, TRUE),
                      pages, entry, concerning_address)
      [] OTHER ->                                   \* transfer / withdraw
           IF ~AddressOk(entry.op.from) \/ ~AddressOk(entry.op.to)
           THEN RNone(c)
           ELSE FinishTx(_get_token_and_amount_by_id_or_log(
                             c, pages, entry.op.token, entry.op.amount, TRUE),
                         entry.txHash, entry, entry.op.from, entry.op.to)

_deserialize_zksync_transaction(c, pages, entry, concerning_address) ==
    IF entry.status # NoKey /\ entry.status # "finalized" THEN RNone(c)
    ELSE IF entry.txHash = NoKey THEN RNone(c)                 \* KeyError
    ELSE IF ~entry.hasOp \/ entry.op.type = NoKey THEN RNone(c) \* KeyError
    ELSE IF entry.op.type \notin TxTypes THEN RNone(c)  \* DeserializationError
    ELSE IF entry.blockNumber = NoInt THEN RNone(c)            \* KeyError
    ELSE IF entry.createdAt = NoInt THEN RNone(c)              \* KeyError
    ELSE IF entry.op.fee = BadInt THEN RNone(c)         \* DeserializationError
    ELSE DeserializeByType(c, pages, entry, concerning_address)

----------------------------------------------------------------------------
(* Storage: tables zksynclite_transactions, zksynclite_swaps and            *)
(* used_query_ranges                                                        *)

HashesOf(rows) == {r.tx.tx_hash : r \in rows}

NextIdentifier(rows) ==
    IF rows = {} THEN 1
    ELSE 1 + (CHOOSE n \in {r.identifier : r \in rows} :
                 \A r \in rows : r.identifier <= n)

\* One iteration of the for loop of _add_zksynctxs_db on store st = [db, swaps]:
\* the INSERT raises IntegrityError when the hash is already stored, and the
\* loop continues; a SWAP also gets its row in zksynclite_swaps, and its
\* row of zksynclite_transactions has no column for the swap data.
AddOneTx(st, transaction) ==
    IF transaction.tx_hash \in HashesOf(st.db)
    THEN st
    ELSE LET row_id == NextIdentifier(st.db)
         IN  [db    |-> st.db \cup {[identifier |-> row_id,
                                     tx |-> [transaction EXCEPT
                                               !.swap_data = NoSwap],
                                     is_decoded |-> FALSE]},
              swaps |-> IF transaction.tx_type = "Swap"
                        THEN st.swaps \cup
                               {[tx_id |-> row_id,
                                 data  |-> transaction.swap_data[1]]}
                        ELSE st.swaps]

\* Mutant: the first IntegrityError ends the loop.
RECURSIVE _add_zksynctxs_db_Abort(_, _)
_add_zksynctxs_db_Abort(st, transactions) ==
    IF transactions = <<>> THEN st
    ELSE IF Head(transactions).tx_hash \in HashesOf(st.db) THEN st
    ELSE _add_zksynctxs_db_Abort(AddOneTx(st, Head(transactions)),
                                 Tail(transactions))

\* _add_zksynctxs_db over the transactions in iteration order.
RECURSIVE _add_zksynctxs_db(_, _)
_add_zksynctxs_db(st, transactions) ==
    IF transactions = <<>> THEN st
    ELSE _add_zksynctxs_db(AddOneTx(st, Head(transactions)),
                           Tail(transactions))

\* The orders in which a Python set can be iterated.
Orders(S) ==
    {o \in [1..Cardinality(S) -> S] : \A x \in S : \E i \in DOMAIN o : o[i] = x}

\* DBQueryRanges.update_used_query_range for one queried range: the stored
\* range of the location becomes the submitted one.
update_used_query_range(r, location_string, queried) ==
    [r EXCEPT ![location_string] = queried]

\* get_used_query_range
get_used_query_range(r, location) == r[location]

----------------------------------------------------------------------------
(* PaginatedFetcher: _query_zksync_api_transactions and                     *)
(* _query_and_save_transactions_for_range                                   *)

\* The for loop over one page (result) of _query_zksync_api_transactions
\* (lines 424-431); r is what the normalizer returned for row idx.
\* KeyError is raised by entry['txHash'] of the first row, outside the try
\* of the normalizer.
RECURSIVE PageEntries(_, _, _, _, _, _, _)
PageEntryNext(r, listing, result, idx, transactions, last, address) ==
    IF r.kind = "raise"
    THEN [kind |-> "raise", exc |-> r.exc, cache |-> r.cache,
          transactions |-> transactions, last_tx_hash |-> last]
    ELSE IF r.kind = "none"
    THEN PageEntries(r.cache, listing, result, idx + 1, transactions, last,
                     address)
    ELSE PageEntries(r.cache, listing, result, idx + 1,
                     Append(transactions, r.tx), result[idx].txHash, address)

\* Mutant: the first row of a page is never skipped.
PageEntries_NoSkip(c, listing, result, idx, transactions, last, address) ==
    IF idx > Len(result)
    THEN [kind |-> "ok", exc |-> "", cache |-> c,
          transactions |-> transactions, last_tx_hash |-> last]
    ELSE IF idx = 1 /\ result[idx].txHash = NoKey
    THEN [kind |-> "raise", exc |-> "KeyError", cache |-> c,
          transactions |-> transactions, last_tx_hash |-> last]
    ELSE PageEntryNext(
             _deserialize_zksync_transaction(c, listing, result[idx], address),
             listing, result, idx, transactions, last, address)

PageEntries(c, listing, result, idx, transactions, last, address) ==
    IF idx > Len(result)
    THEN [kind |-> "ok", exc |-> "", cache |-> c,
          transactions |-> transactions, last_tx_hash |-> last]
    ELSE IF idx = 1 /\ result[idx].txHash = NoKey
    THEN [kind |-> "raise", exc |-> "KeyError", cache |-> c,
          transactions |-> transactions, last_tx_hash |-> last]
    ELSE IF idx = 1 /\ result[idx].txHash = last
    THEN PageEntries(c, listing, result, idx + 1, transactions, last, address)
    ELSE PageEntryNext(
             _deserialize_zksync_transaction(c, listing, result[idx], address),
             listing, result, idx, transactions, last, address)

\* Mutant: the transactions already persisted are not subtracted.
UniqueTransactions_NoSubtract(new_transactions, input) ==
    Range(new_transactions)

\* Mutant: a response without a 'list' is taken for an empty page.
WalkResponseFails_MissingListIsEmpty(r) == r.raised

\* Lines 414-422: the page request raised RemoteError, or the dict it
\* returned has no 'list' and the walk raises RemoteError itself.
WalkResponseFails(r) == r.raised \/ ~r.hasList

\* The transactions of a batch that are handed to _add_zksynctxs_db.
UniqueTransactions(new_transactions, input) ==
    Range(new_transactions) \ input

\* Mutant: the directions are taken the other way round.
Watermark_Swapped(direction, start, end, last_ts) ==
    IF direction = "older" THEN <<start, last_ts>> ELSE <<last_ts, end>>

\* Lines 197-200: the bounds (current_start_ts, current_end_ts) after a
\* non-empty batch whose last transaction has timestamp last_ts.
Watermark(direction, start, end, last_ts) ==
    IF direction = "older" THEN <<last_ts, end>> ELSE <<start, last_ts>>

\* Mutant: only an empty page ends the pagination.
AfterYield_StopOnEmpty(result) ==
    IF Len(result) = 0 THEN "stop"
    ELSE IF result[Len(result)].txHash = NoKey THEN "KeyError"
    ELSE "more"

\* What follows the yield of a page: stop on a short page, else move the
\* cursor to the txHash of the last row (KeyError when it has none).
AfterYield(result) ==
    IF Len(result) < ZKSYNCLITE_MAX_LIMIT THEN "stop"
    ELSE IF result[Len(result)].txHash = NoKey THEN "KeyError"
    ELSE "more"

----------------------------------------------------------------------------
(* IngestionOrchestrator: fetch_transactions                                *)

\* The call that is modelled: fetch_transactions(FetchAddress, StartTs, EndTs)
FetchAddress == "0xA"
OtherAddress == "0xB"
StartTs == 0
EndTs == 9

\* Walks of one call are cut off after MaxPages page requests each.
MaxPages == 3

ReadPrefix == "zksynctxs_"
SavePrefixes == {"zksynctxs_", "zksynclitetxs_"}
Location(prefix, address) == <<prefix, address>>
Locations == {Location(p, FetchAddress) : p \in SavePrefixes}

FullCache == [ids  |-> (0 :> "ETH") @@ (1 :> "TOK"),
              syms |-> ("ETH" :> "ETH") @@ ("TOK" :> "TOK")]
NoCache == [ids |-> EmptyDict, syms |-> EmptyDict]

\* Raw rows the transactions endpoint can return.
TransferEntry(h, ts, from, to) ==
    [BaseEntry EXCEPT !.txHash = h, !.status = "finalized",
                      !.blockNumber = 10 + ts, !.createdAt = ts,
                      !.hasOp = TRUE,
                      !.op = [BaseOp EXCEPT !.type = "Transfer",
                                            !.from = from, !.to = to,
                                            !.token = 0, !.amount = 100,
                                            !.fee = 1]]
RowA      == TransferEntry("h1", 1, FetchAddress, OtherAddress)
RowB      == TransferEntry("h2", 2, OtherAddress, FetchAddress)
RowNFT    == [TransferEntry("h3", 3, OtherAddress, FetchAddress)
                EXCEPT !.op.token = 7]
RowNoHash == TransferEntry(NoKey, 3, OtherAddress, FetchAddress)

RawRows == {RowA, RowB, RowNFT, RowNoHash}

Pages == UNION {[1..n -> RawRows] : n \in 0..ZKSYNCLITE_MAX_LIMIT}

\* What the token-listing endpoint answers while a page is normalized: it
\* fails, lists ETH and TOK, lists nothing that can be cached, or fails on
\* its second page.
TokenScenarios ==
    { <<RespRaise>>,
      <<RespList(<<TokETH>>)>>,
      <<RespList(<<TokNFT>>)>>,
      <<RespList(<<TokETH, TokTOK>>), RespRaise>> }

TxOf(entry) ==
    _deserialize_zksync_transaction(FullCache, <<>>, entry, FetchAddress).tx

StoredRow(n, entry) == [identifier |-> n, tx |-> TxOf(entry),
                        is_decoded |-> FALSE]

\* Stores left behind by earlier runs: [db, range under the key that
\* fetch_transactions reads]. The table is shared by every tracked address:
\* the last store also holds a transfer that a fetch for OtherAddress
\* stored and that does not involve FetchAddress.
PersistedStores ==
    { [db |-> {}, range |-> NoRange],
      [db |-> {StoredRow(1, RowA)}, range |-> NoRange],
      [db |-> {StoredRow(1, RowB), StoredRow(2, RowA)}, range |-> <<1, EndTs>>],
      [db |-> {StoredRow(1, RowB), StoredRow(2, RowA)}, range |-> <<0, EndTs>>],
      [db |-> {StoredRow(1, TransferEntry("h4", 1, OtherAddress, OtherAddress)),
               StoredRow(2, RowB)},
       range |-> <<1, EndTs>>] }

\* The single row of 'SELECT tx_hash, min(timestamp)': (NULL, NULL) on an
\* empty table, else the hash of a row holding the minimum.
NullRow == [tx_hash |-> NoKey, timestamp |-> NoInt]
MinRows(rows) ==
    IF rows = {} THEN {NullRow}
    ELSE {[tx_hash |-> r.tx.tx_hash, timestamp |-> r.tx.timestamp] :
            r \in {x \in rows : \A y \in rows : x.tx.timestamp <= y.tx.timestamp}}
MaxRows(rows) ==
    IF rows = {} THEN {NullRow}
    ELSE {[tx_hash |-> r.tx.tx_hash, timestamp |-> r.tx.timestamp] :
            r \in {x \in rows : \A y \in rows : x.tx.timestamp >= y.tx.timestamp}}

\* cursor.fetchone() on the rows a cursor still holds: <<row>> or <<>> (None)
FetchOne(cursor) == IF cursor = <<>> THEN <<>> ELSE <<Head(cursor)>>

\* Lines 544-560: the cursors and bounds read from local storage.
FetchLocals(minrow, maxrow, start_ts, end_ts) ==
    LET result   == FetchOne(<<minrow>>)
        hasMin   == result # <<>> /\ result[1].tx_hash # NoKey
        cursor   == <<maxrow>>             \* rows of the max(timestamp) query
        \* result_hash = cursor.fetchone()[0] takes the only row
        rest     == Tail(cursor)
        \* (result_hash := cursor.fetchone()) reads the cursor again
        result_hash == FetchOne(rest)
        hasMax   == result # <<>> /\ result_hash # <<>>
                    /\ result_hash[1].tx_hash # NoKey
    IN  [min_tx_hash   |-> IF hasMin THEN result[1].tx_hash ELSE "latest",
         min_timestamp |-> IF hasMin THEN result[1].timestamp ELSE start_ts,
         max_tx_hash   |-> IF hasMax THEN result_hash[1].tx_hash ELSE "latest",
         max_timestamp |-> IF hasMax THEN result[1].timestamp ELSE end_ts]

Walk(start_ts, end_ts, from, direction) ==
    [start_ts |-> start_ts, end_ts |-> end_ts, from_hash |-> from,
     direction |-> direction]

\* Mutant: the two-walk case walks forward first.
FetchPlan_NewerFirst(qr, l, start_ts, end_ts) ==
    IF qr = NoRange
    THEN << Walk(start_ts, end_ts, "latest", "older") >>
    ELSE IF qr[1] # 0
    THEN << Walk(l.max_timestamp, end_ts, l.max_tx_hash, "newer"),
            Walk(start_ts, l.min_timestamp, l.min_tx_hash, "older") >>
    ELSE << Walk(l.max_timestamp, end_ts, l.max_tx_hash, "newer") >>

\* Lines 563-593: the walks made for a queried range.
FetchPlan(qr, l, start_ts, end_ts) ==
    IF qr = NoRange
    THEN << Walk(start_ts, end_ts, "latest", "older") >>
    ELSE IF qr[1] # 0
    THEN << Walk(start_ts, l.min_timestamp, l.min_tx_hash, "older"),
            Walk(l.max_timestamp, end_ts, l.max_tx_hash, "newer") >>
    ELSE << Walk(l.max_timestamp, end_ts, l.max_tx_hash, "newer") >>

\* Mutant: the try block of fetch_transactions catches nothing.
FetchExcept_NoCatch(exc) == exc

\* Lines 562/594-599: how an exception that leaves a walk ends the call.
FetchExcept(exc) == IF exc = "RemoteError" THEN "returned" ELSE exc

NoStep == [kind |-> "none", exc |-> "", unique |-> {}, submitted |-> NoRange]
NoWalk == Walk(0, 0, "", "")

FetchInit ==
    /\ \E st \in PersistedStores :
         /\ db = st.db
         /\ \E p \in SavePrefixes :
              /\ savePrefix = p
              /\ ranges = [loc \in Locations |->
                             IF loc = Location(ReadPrefix, FetchAddress)
                             THEN st.range ELSE NoRange]
    /\ swaps = {}
    /\ \E c \in {NoCache, FullCache} :
         id_to_token = c.ids /\ symbol_to_token = c.syms
    /\ fpc = "idle" /\ outcome = "" /\ queried_range = NoRange
    /\ plan = <<>> /\ walk = NoWalk /\ walkLog = <<>>
    /\ from_hash = "" /\ last_tx_hash = ""
    /\ current_start_ts = 0 /\ current_end_ts = 0
    /\ input_transactions = {} /\ nPages = 0
    /\ prevPage = <<>> /\ curPage = <<>> /\ prevBatch = <<>> /\ curBatch = <<>>
    /\ handed = EmptyBag /\ lastStep = NoStep

\* fetch_transactions up to its try block
FetchStart ==
    /\ UNCHANGED <<apiVars, tokVars, decVars, singleVars, serverVars>>
    /\ fpc = "idle"
    /\ \E minrow \in MinRows(db), maxrow \in MaxRows(db) :
         LET qr == get_used_query_range(ranges,
                                        Location(ReadPrefix, FetchAddress))
             l  == FetchLocals(minrow, maxrow, StartTs, EndTs)
         IN  /\ queried_range' = qr
             /\ plan' = FetchPlan(qr, l, StartTs, EndTs)
    /\ fpc' = "between"
    /\ UNCHANGED <<storeVars, outcome, walk, walkLog, from_hash, last_tx_hash,
                   current_start_ts, current_end_ts, input_transactions,
                   nPages, prevPage, curPage, prevBatch, curBatch, handed,
                   lastStep>>

\* Entry of _query_and_save_transactions_for_range (lines 177-181, 410-411)
BeginWalk ==
    /\ UNCHANGED <<apiVars, tokVars, decVars, singleVars, serverVars>>
    /\ fpc = "between" /\ plan # <<>>
    /\ walk' = Head(plan)
    /\ plan' = Tail(plan)
    /\ walkLog' = Append(walkLog, Head(plan))
    /\ from_hash' = Head(plan).from_hash
    /\ last_tx_hash' = ""
    /\ current_start_ts' = Head(plan).start_ts
    /\ current_end_ts' = Head(plan).end_ts
    /\ input_transactions' = {}
    /\ nPages' = 0
    /\ prevPage' = <<>> /\ curPage' = <<>>
    /\ prevBatch' = <<>> /\ curBatch' = <<>>
    /\ handed' = EmptyBag
    /\ lastStep' = NoStep
    /\ fpc' = "walking"
    /\ UNCHANGED <<storeVars, outcome, queried_range>>

\* The call returns after its last walk.
FetchReturn ==
    /\ UNCHANGED <<apiVars, tokVars, decVars, singleVars, serverVars>>
    /\ fpc = "between" /\ plan = <<>>
    /\ fpc' = "done"
    /\ outcome' = "returned"
    /\ UNCHANGED <<storeVars, queried_range, plan, walk, walkLog, from_hash,
                   last_tx_hash, current_start_ts, current_end_ts,
                   input_transactions, nPages, prevPage, curPage, prevBatch,
                   curBatch, handed, lastStep>>

\* A page request of the walk fails: _query_api raises RemoteError, or the
\* dict it returns has no 'list' (lines 414-422).
WalkRequestFails ==
    /\ UNCHANGED <<apiVars, tokVars, decVars, singleVars, serverVars>>
    /\ fpc = "walking" /\ nPages < MaxPages
    /\ \E r \in {RespRaise, RespNoList} :
         /\ WalkResponseFails(r)
         /\ lastStep' = [NoStep EXCEPT !.kind = "request_failed",
                                       !.exc = "RemoteError"]
    /\ nPages' = nPages + 1
    /\ fpc' = "done"
    /\ outcome' = FetchExcept("RemoteError")
    /\ UNCHANGED <<storeVars, queried_range, plan, walk, walkLog, from_hash,
                   last_tx_hash, current_start_ts, current_end_ts,
                   input_transactions, prevPage, curPage, prevBatch, curBatch,
                   handed>>

\* The token directory as the manager holds it.
Cache == [ids |-> id_to_token, syms |-> symbol_to_token]

\* Token listings that can matter to a page: none once the cache is filled.
ListingsFor(c) == IF DOMAIN c.ids = {} THEN TokenScenarios ELSE {<<>>}

\* Pages the server may answer to the next request of the walk: the last
\* request the bound allows gets a short page.
PagesFor(n) ==
    IF n = MaxPages - 1
    THEN {pg \in Pages : Len(pg) < ZKSYNCLITE_MAX_LIMIT}
    ELSE Pages

\* The for loop over the page just received.
ThisPage(result, listing) ==
    PageEntries(Cache, listing, result, 1, <<>>, last_tx_hash, FetchAddress)

\* The part of a page step that is the same whatever the batch: the page
\* counters, and what the generator does after the yield (lines 434-438).
PageFrame(result, pe, unique, submitted) ==
    LET after == AfterYield(result) IN
    /\ nPages' = nPages + 1
    /\ prevPage' = curPage /\ curPage' = result
    /\ prevBatch' = curBatch /\ curBatch' = pe.transactions
    /\ id_to_token' = pe.cache.ids /\ symbol_to_token' = pe.cache.syms
    /\ last_tx_hash' = pe.last_tx_hash
    /\ from_hash' = IF after = "more" THEN result[Len(result)].txHash
                    ELSE from_hash
    /\ fpc' = CASE after = "more" -> "walking"
                [] after = "stop" -> "between"
                [] OTHER          -> "done"
    /\ outcome' = IF after = "KeyError" THEN FetchExcept("KeyError")
                  ELSE outcome
    /\ lastStep' = [kind |-> IF unique = {} /\ submitted = NoRange
                             THEN "empty" ELSE "batch",
                    exc |-> IF after = "KeyError" THEN "KeyError" ELSE "",
                    unique |-> unique, submitted |-> submitted]

\* A page is received and an exception leaves the for loop over its rows:
\* nothing is yielded (lines 424-431).
WalkPageRaises ==
    /\ UNCHANGED <<apiVars, tokVars, decVars, singleVars, serverVars>>
    /\ fpc = "walking" /\ nPages < MaxPages
    /\ \E result \in PagesFor(nPages), listing \in ListingsFor(Cache) :
         LET pe == ThisPage(result, listing) IN
         /\ pe.kind = "raise"
         /\ nPages' = nPages + 1
         /\ prevPage' = curPage /\ curPage' = result
         /\ prevBatch' = curBatch /\ curBatch' = <<>>
         /\ id_to_token' = pe.cache.ids /\ symbol_to_token' = pe.cache.syms
         /\ lastStep' = [NoStep EXCEPT !.kind = "raise", !.exc = pe.exc]
         /\ fpc' = "done"
         /\ outcome' = FetchExcept(pe.exc)
    /\ UNCHANGED <<db, swaps, ranges, savePrefix, queried_range, plan, walk,
                   walkLog, from_hash, last_tx_hash, current_start_ts,
                   current_end_ts, input_transactions, handed>>

\* A page is received and its batch is empty: the consumer continues
\* (lines 187-188).
WalkPageEmpty ==
    /\ UNCHANGED <<apiVars, tokVars, decVars, singleVars, serverVars>>
    /\ fpc = "walking" /\ nPages < MaxPages
    /\ \E result \in PagesFor(nPages), listing \in ListingsFor(Cache) :
         LET pe == ThisPage(result, listing) IN
         /\ pe.kind = "ok" /\ pe.transactions = <<>>
         /\ PageFrame(result, pe, {}, NoRange)
    /\ UNCHANGED <<db, swaps, ranges, savePrefix, queried_range, plan, walk,
                   walkLog, current_start_ts, current_end_ts,
                   input_transactions, handed>>

\* A page is received and its batch is persisted (lines 190-208).
WalkPageBatch ==
    /\ UNCHANGED <<apiVars, tokVars, decVars, singleVars, serverVars>>
    /\ fpc = "walking" /\ nPages < MaxPages
    /\ \E result \in PagesFor(nPages), listing \in ListingsFor(Cache) :
         LET pe == ThisPage(result, listing)
             new_transactions == pe.transactions
             unique_transactions ==
                 UniqueTransactions(new_transactions, input_transactions)
             current ==
                 Watermark(walk.direction, current_start_ts, current_end_ts,
                           new_transactions[Len(new_transactions)].timestamp)
             new_start == current[1]
             new_end   == current[2]
         IN
         /\ pe.kind = "ok" /\ new_transactions # <<>>
         /\ \E order \in Orders(unique_transactions) :
              LET st == _add_zksynctxs_db([db |-> db, swaps |-> swaps], order)
              IN  db' = st.db /\ swaps' = st.swaps
         /\ current_start_ts' = new_start
         /\ current_end_ts' = new_end
         /\ ranges' = update_used_query_range(
                          ranges, Location(savePrefix, FetchAddress),
                          <<new_start, new_end>>)
         /\ input_transactions' = input_transactions \cup unique_transactions
         /\ handed' = handed (+) SetToBag(unique_transactions)
         /\ PageFrame(result, pe, unique_transactions, <<new_start, new_end>>)
    /\ UNCHANGED <<savePrefix, queried_range, plan, walk, walkLog>>

Next ==
    \/ FetchStart
    \/ BeginWalk
    \/ FetchReturn
    \/ WalkRequestFails
    \/ WalkPageRaises
    \/ WalkPageEmpty
    \/ WalkPageBatch

\* The variables of the other specifications stay at rest.
ApiAtRest ==
    /\ apiMode = "" /\ apiPc = "" /\ backoff = 0 /\ sleeps = <<>>
    /\ nRequests = 0 /\ apiResult = "" /\ callerOutcome = ""
    /\ callerBatches = 0 /\ lastHttp = ""
TokAtRest ==
    /\ tokPc = "" /\ tokFromIdx = 0 /\ tokRequests = 0 /\ tokDone = FALSE
    /\ tokLate = 0 /\ tokAnswer = "" /\ tokLookups = 0

DecAtRest ==
    /\ history_events = {} /\ tracked_addresses = {} /\ force_redecode = FALSE
    /\ dpc = "" /\ dTransactions = <<>> /\ tx_index = 0
    /\ lastDecode = <<>> /\ decodeLog = <<>> /\ dOutcome = "" /\ nPasses = 0

SingleAtRest ==
    /\ spc = "" /\ sResponse = "" /\ sTx = NoTx /\ sOutcome = ""
    /\ lastrowid = 0 /\ write_lock = FALSE /\ nCalls = 0

\* The server of this specification may answer any page: what it holds is
\* left open.
ServerOpen == history = <<>>

Init ==
    FetchInit /\ ApiAtRest /\ TokAtRest /\ DecAtRest /\ SingleAtRest /\ ServerOpen

Spec == Init /\ [][Next]_vars

----------------------------------------------------------------------------
(* PaginatedFetcher against a server that holds a finite history            *)
(* (specification SpecServed)                                               *)

\* The server holds at most MaxHistory transactions of the account.
MaxHistory == 3

\* The histories of the account: its transactions, each with its own hash,
\* newest first.
Histories ==
    {h \in UNION {[1..n -> RawRows \ {RowNoHash}] : n \in 0..MaxHistory} :
       \A i, j \in DOMAIN h : i # j => h[i].txHash # h[j].txHash}

\* The history in the order of a direction.
InDirection(hist, direction) ==
    IF direction = "older" THEN hist
    ELSE [i \in DOMAIN hist |-> hist[Len(hist) + 1 - i]]

\* The place of the cursor of a request in the history as the direction
\* orders it: 'latest' is the newest transaction, and 0 stands for a hash
\* the account does not have.
CursorOf(hist, from, direction) ==
    IF hist = <<>> THEN 0
    ELSE IF from = "latest"
    THEN (IF direction = "older" THEN 1 ELSE Len(hist))
    ELSE IF \A i \in DOMAIN hist : hist[i].txHash # from THEN 0
    ELSE CHOOSE i \in DOMAIN hist :
             InDirection(hist, direction)[i].txHash = from

\* The 'list' answered to GET accounts/<address>/transactions with the
\* options of line 413: up to limit rows in the order of the direction,
\* from the cursor row on, the cursor row included; nothing for a cursor
\* the account does not have.
ServerPage(hist, from, direction) ==
    IF CursorOf(hist, from, direction) = 0 THEN <<>>
    ELSE SubSeq(InDirection(hist, direction),
                CursorOf(hist, from, direction),
                IF CursorOf(hist, from, direction) + ZKSYNCLITE_MAX_LIMIT - 1
                     > Len(hist)
                THEN Len(hist)
                ELSE CursorOf(hist, from, direction)
                       + ZKSYNCLITE_MAX_LIMIT - 1)

InitServed ==
    /\ FetchInit /\ ApiAtRest /\ TokAtRest /\ DecAtRest /\ SingleAtRest
    /\ history \in Histories

\* One iteration of the while loop of _query_zksync_api_transactions with
\* what its consumer does with the batch, on the page this server answers.
ServedPage ==
    /\ \/ WalkPageRaises
       \/ WalkPageEmpty
       \/ WalkPageBatch
    /\ curPage' = ServerPage(history, from_hash, walk.direction)

NextServed ==
    \/ FetchStart
    \/ BeginWalk
    \/ FetchReturn
    \/ ServedPage

SpecServed == InitServed /\ [][NextServed]_vars

----------------------------------------------------------------------------
(* RemoteClient: _query_api, attempt by attempt, called by the page loop of *)
(* _query_zksync_api_transactions (specification SpecApi)                   *)

\* Local variable backoff_limit of _query_api.
backoff_limit == 33

\* The page loop is cut off after MaxApiPages calls of _query_api.
MaxApiPages == 2

\* What one session.get can come back with.
HttpAnswers == {"exception", "429", "non200", "badjson", "noresult",
                "nolist", "short", "full"}

AnswersOf(mode) == IF mode = "always429" THEN {"429"} ELSE HttpAnswers

\* The dict handed back for a 200 response with a 'result'.
ResultOf(http) ==
    CASE http = "short" -> RespList(<<RowA>>)
      [] http = "full"  -> RespList(<<RowA, RowB>>)
      [] OTHER          -> RespNoList

\* Mutant: every answer that is not a success is backed off like a 429.
ApiOnAnswer_RetryOnError(b, http) ==
    CASE http = "exception" -> [do |-> "raise", backoff |-> b]
      [] http \in {"429", "non200", "badjson", "noresult"} ->
           IF b >= backoff_limit THEN [do |-> "raise", backoff |-> b]
           ELSE [do |-> "sleep", backoff |-> b * 2]
      [] OTHER -> [do |-> "return", backoff |-> b]

\* One pass of the while loop of _query_api (lines 119-163) with backoff b
\* on answer http: sleep and go on, raise RemoteError, or return.
ApiOnAnswer(b, http) ==
    CASE http = "exception" -> [do |-> "raise", backoff |-> b]
      [] http = "429" ->
           IF b >= backoff_limit THEN [do |-> "raise", backoff |-> b]
           ELSE [do |-> "sleep", backoff |-> b * 2]
      [] http \in {"non200", "badjson", "noresult"} ->
           [do |-> "raise", backoff |-> b]
      [] OTHER -> [do |-> "return", backoff |-> b]

\* The while condition of _query_api (line 119).
ApiLoopGoesOn(b) == b < backoff_limit

FetchAtRest ==
    /\ fpc = "" /\ outcome = "" /\ queried_range = NoRange
    /\ plan = <<>> /\ walk = NoWalk /\ walkLog = <<>>
    /\ from_hash = "" /\ last_tx_hash = ""
    /\ current_start_ts = 0 /\ current_end_ts = 0
    /\ input_transactions = {} /\ nPages = 0
    /\ prevPage = <<>> /\ curPage = <<>> /\ prevBatch = <<>> /\ curBatch = <<>>
    /\ handed = EmptyBag /\ lastStep = NoStep
    /\ history = <<>>

StoreAtRest ==
    /\ db = {} /\ swaps = {}
    /\ ranges = [loc \in Locations |-> NoRange]
    /\ savePrefix = ReadPrefix

ApiInit ==
    /\ StoreAtRest /\ FetchAtRest
    /\ id_to_token = FullCache.ids /\ symbol_to_token = FullCache.syms
    /\ apiMode \in {"always429", "any"}
    /\ apiPc = "caller" /\ backoff = 0 /\ sleeps = <<>> /\ nRequests = 0
    /\ apiResult = RespNoList /\ callerOutcome = "" /\ callerBatches = 0
    /\ lastHttp = ""

\* The page loop calls _query_api (line 414); lines 111-118 of the callee.
ApiCall ==
    /\ UNCHANGED <<storeVars, fetchVars, tokVars, decVars, singleVars, serverVars>>
    /\ apiPc = "caller" /\ callerOutcome = ""
    /\ callerBatches < MaxApiPages
    /\ apiPc' = "loop"
    /\ backoff' = 1
    /\ sleeps' = <<>>
    /\ apiResult' = RespNoList                       \* result = {}
    /\ lastHttp' = ""
    /\ UNCHANGED <<apiMode, nRequests, callerOutcome, callerBatches>>

\* One pass of the while loop: a request and what its answer leads to.
ApiAttempt ==
    /\ UNCHANGED <<storeVars, fetchVars, tokVars, decVars, singleVars, serverVars>>
    /\ apiPc = "loop" /\ ApiLoopGoesOn(backoff)
    /\ \E http \in AnswersOf(apiMode) :
         LET a == ApiOnAnswer(backoff, http) IN
         /\ (http = "full" => callerBatches < MaxApiPages - 1)
         /\ nRequests' = nRequests + 1
         /\ lastHttp' = http
         /\ backoff' = a.backoff
         /\ sleeps' = IF a.do = "sleep" THEN Append(sleeps, backoff)
                      ELSE sleeps
         /\ apiPc' = CASE a.do = "sleep"  -> "loop"
                       [] a.do = "raise"  -> "raised"
                       [] OTHER           -> "returned"
         /\ apiResult' = CASE a.do = "return" -> ResultOf(http)
                           [] a.do = "raise"  -> RespRaise
                           [] OTHER           -> apiResult
    /\ UNCHANGED <<apiMode, callerOutcome, callerBatches>>

\* The while loop ends because backoff reached the limit: line 165 returns
\* result.
ApiLoopExit ==
    /\ UNCHANGED <<storeVars, fetchVars, tokVars, decVars, singleVars, serverVars>>
    /\ apiPc = "loop" /\ ~ApiLoopGoesOn(backoff)
    /\ apiPc' = "returned"
    /\ UNCHANGED <<apiMode, backoff, sleeps, nRequests, apiResult,
                   callerOutcome, callerBatches, lastHttp>>

\* The page loop takes what _query_api handed back (lines 418-438).
CallerTakes ==
    /\ UNCHANGED <<storeVars, fetchVars, tokVars, decVars, singleVars, serverVars>>
    /\ apiPc \in {"returned", "raised"}
    /\ apiPc' = "caller"
    /\ IF WalkResponseFails(apiResult)
       THEN /\ callerOutcome' = "RemoteError"
            /\ UNCHANGED callerBatches
       ELSE /\ callerBatches' = callerBatches + 1
            /\ callerOutcome' = IF AfterYield(apiResult.list) = "stop"
                                THEN "ended" ELSE ""
    /\ UNCHANGED <<apiMode, backoff, sleeps, nRequests, apiResult, lastHttp>>

NextApi == ApiCall \/ ApiAttempt \/ ApiLoopExit \/ CallerTakes

InitApi == ApiInit /\ TokAtRest /\ DecAtRest /\ SingleAtRest

SpecApi == InitApi /\ [][NextApi]_vars

\* The walk runs in one thread that is never descheduled for good: a step
\* that can be taken is taken.
FairSpecApi == SpecApi /\ WF_vars(NextApi)

----------------------------------------------------------------------------
(* TokenDirectory: lookups on one manager, the token listing page by page   *)
(* (specification SpecTokens)                                               *)

\* A manager is asked at most MaxLookups times, and one pagination is cut
\* off after MaxTokPages requests.
MaxLookups == 3
MaxTokPages == 2

TokNoId == [id |-> NoInt, symbol |-> "TOK", address |-> "0xT1"]

ListedRows == {TokETH, TokNFT, TokNoId}

ListingAnswers ==
    {RespRaise, RespNoList}
        \cup {RespList(l) : l \in UNION {[1..n -> ListedRows] :
                                         n \in 0..ZKSYNCLITE_MAX_LIMIT}}

LookupKeys(kind) == IF kind = "id" THEN {0, 2} ELSE {"ETH", "NFT"}

TokCache == [ids |-> id_to_token, syms |-> symbol_to_token]

TokensInit ==
    /\ StoreAtRest /\ FetchAtRest
    /\ id_to_token = EmptyDict /\ symbol_to_token = EmptyDict
    /\ tokPc = "idle" /\ tokFromIdx = 0 /\ tokRequests = 0
    /\ tokDone = FALSE /\ tokLate = 0 /\ tokLookups = 0
    /\ tokAnswer = [kind |-> "", key |-> NoKey, state |-> "", asset |-> NoAsset]

\* _get_token_by_id / _get_token_by_symbol when the dict has an entry: the
\* dict.get alone.
LookupCached ==
    /\ UNCHANGED <<storeVars, fetchVars, apiVars, decVars, singleVars, serverVars>>
    /\ tokPc = "idle" /\ tokLookups < MaxLookups
    /\ \E kind \in {"id", "symbol"} : \E key \in LookupKeys(kind) :
         /\ ~MappingIsEmpty(TokCache, kind)
         /\ tokAnswer' = [kind |-> kind, key |-> key, state |-> "ok",
                          asset |-> MappingGet(TokCache, kind, key)]
    /\ tokLookups' = tokLookups + 1
    /\ tokRequests' = 0
    /\ UNCHANGED <<tokPc, tokFromIdx, tokDone, tokLate>>

\* _get_token_by_id / _get_token_by_symbol when the dict is empty: enter
\* _create_tokens_mapping (from_idx = 0).
LookupStartsListing ==
    /\ UNCHANGED <<storeVars, fetchVars, apiVars, decVars, singleVars, serverVars>>
    /\ tokPc = "idle" /\ tokLookups < MaxLookups
    /\ \E kind \in {"id", "symbol"} : \E key \in LookupKeys(kind) :
         /\ MappingIsEmpty(TokCache, kind)
         /\ tokAnswer' = [kind |-> kind, key |-> key, state |-> "pending",
                          asset |-> NoAsset]
    /\ tokLookups' = tokLookups + 1
    /\ tokPc' = "listing" /\ tokFromIdx' = 0 /\ tokRequests' = 0
    /\ UNCHANGED <<tokDone, tokLate>>

\* The lookup in progress ends after its listing step ended as s.
ListingStepEnds(s) ==
    /\ id_to_token' = s.cache.ids
    /\ symbol_to_token' = s.cache.syms
    /\ tokFromIdx' = s.from_idx
    /\ tokPc' = IF s.state = "more" THEN "listing" ELSE "idle"
    /\ tokDone' = (tokDone \/ s.state = "done")
    /\ tokAnswer' =
         CASE s.state = "more" -> tokAnswer
           [] s.state = "done" ->
                [tokAnswer EXCEPT !.state = "ok",
                     !.asset = MappingGet(s.cache, tokAnswer.kind,
                                          tokAnswer.key)]
           [] OTHER -> [tokAnswer EXCEPT !.state = s.state]

\* One iteration of the while loop of _create_tokens_mapping: a listing
\* request and the processing of its answer.
ListingPage ==
    /\ UNCHANGED <<db, swaps, ranges, savePrefix, fetchVars, apiVars,
                   decVars, singleVars, serverVars>>
    /\ tokPc = "listing"
    /\ \E r \in ListingAnswers :
         /\ (tokRequests + 1 >= MaxTokPages
                => Len(r.list) < ZKSYNCLITE_MAX_LIMIT)
         /\ ListingStepEnds(TokensPageStep(TokCache, tokFromIdx, r))
    /\ tokRequests' = tokRequests + 1
    /\ tokLate' = tokLate + (IF tokDone THEN 1 ELSE 0)
    /\ UNCHANGED tokLookups

NextTokens == LookupCached \/ LookupStartsListing \/ ListingPage

InitTokens == TokensInit /\ ApiAtRest /\ DecAtRest /\ SingleAtRest

SpecTokens == InitTokens /\ [][NextTokens]_vars

----------------------------------------------------------------------------
(* LedgerDecoder: decode_transaction                                        *)

\* ZKL_IDENTIFIER.format(tx_hash=...): the event identifier of a transaction.
ZKL_IDENTIFIER(tx_hash) == <<"zkl", tx_hash>>

\* One tuple of event_data made into an EvmEvent (lines 791-805).
Event(t, idx, event_type, event_subtype, asset, amount, label, target) ==
    [event_identifier |-> ZKL_IDENTIFIER(t.tx_hash),
     sequence_index |-> idx,
     event_type |-> event_type, event_subtype |-> event_subtype,
     asset |-> asset, amount |-> amount,
     location_label |-> label, address |-> target]

\* Truth value of a fee: None and zero are false (line 745).
FeeIsSet(fee) == fee # NoFee /\ fee # ZERO

\* Mutant: a deposit is decoded when its sender is tracked.
DepositEvents_IfFromTracked(t, tracked_from, tracked_to) ==
    IF tracked_from
    THEN << Event(t, 0, "WITHDRAWAL", "BRIDGE", t.asset, t.amount,
                  t.to_address, NoneAddr) >>
    ELSE <<>>

\* case DEPOSIT (lines 659-676)
DepositEvents(t, tracked_from, tracked_to) ==
    IF tracked_to
    THEN << Event(t, 0, "WITHDRAWAL", "BRIDGE", t.asset, t.amount,
                  t.to_address, NoneAddr) >>
    ELSE <<>>

\* case WITHDRAW (lines 678-694)
WithdrawEvents(t, tracked_from, tracked_to) ==
    IF tracked_from
    THEN << Event(t, 0, "DEPOSIT", "BRIDGE", t.asset, t.amount,
                  t.from_address, t.to_address) >>
    ELSE <<>>

\* Mutant: the sender is looked at first.
TransferEvents_SpendFirst(t, tracked_from, tracked_to) ==
    IF tracked_from
    THEN << Event(t, 0, "SPEND", "NONE", t.asset, t.amount,
                  t.from_address, t.to_address) >>
    ELSE IF tracked_to
    THEN << Event(t, 0, "RECEIVE", "NONE", t.asset, t.amount,
                  t.to_address, t.from_address) >>
    ELSE <<>>

\* case TRANSFER (lines 696-730)
TransferEvents(t, tracked_from, tracked_to) ==
    IF tracked_from /\ tracked_to
    THEN << Event(t, 0, "TRANSFER", "NONE", t.asset, t.amount,
                  t.from_address, t.to_address) >>
    ELSE IF tracked_from
    THEN << Event(t, 0, "SPEND", "NONE", t.asset, t.amount,
                  t.from_address, t.to_address) >>
    ELSE IF tracked_to
    THEN << Event(t, 0, "RECEIVE", "NONE", t.asset, t.amount,
                  t.to_address, t.from_address) >>
    ELSE <<>>

\* case FULLEXIT | FORCEDEXIT (lines 732-742)
ExitEvents(t) ==
    << Event(t, 0, "INFORMATIONAL", "NONE", t.asset, t.amount,
             t.from_address, t.to_address) >>

\* Mutant: the fee stays on the record.
ChangePubKeyRecord_KeepFee(t) ==
    IF FeeIsSet(t.fee) THEN [t EXCEPT !.amount = t.fee] ELSE t

\* case CHANGEPUBKEY, the record: the fee is moved into amount (lines 745-752).
ChangePubKeyRecord(t) ==
    IF FeeIsSet(t.fee) THEN [t EXCEPT !.amount = t.fee, !.fee = NoFee] ELSE t

\* case CHANGEPUBKEY, the event, from the record t2 as lines 748-752 left it
\* (lines 753-765).
ChangePubKeyEvents(t, t2) ==
    IF FeeIsSet(t.fee)
    THEN << Event(t2, 0, "SPEND", "FEE", t2.asset, t2.amount,
                  t2.from_address, t2.to_address) >>
    ELSE <<>>

\* Mutant: the legs are emitted the other way round.
SwapEvents_BuyFirst(t) ==
    << Event(t, 0, "TRADE", "RECEIVE", t.swap_data[1].to_asset,
             t.swap_data[1].to_amount, t.from_address, t.to_address),
       Event(t, 1, "TRADE", "SPEND", t.swap_data[1].from_asset,
             t.swap_data[1].from_amount, t.from_address, t.to_address) >>

\* case SWAP (lines 769-789)
SwapEvents(t) ==
    << Event(t, 0, "TRADE", "SPEND", t.swap_data[1].from_asset,
             t.swap_data[1].from_amount, t.from_address, t.to_address),
       Event(t, 1, "TRADE", "RECEIVE", t.swap_data[1].to_asset,
             t.swap_data[1].to_amount, t.from_address, t.to_address) >>

\* The record as the match statement leaves it.
RecordAfter(t) ==
    IF t.tx_type = "ChangePubKey" THEN ChangePubKeyRecord(t) ELSE t

\* The match statement (lines 658-789) and the loop that builds the events
\* (lines 791-805).
EventData(t, tracked_from, tracked_to) ==
    CASE t.tx_type = "Deposit"  -> DepositEvents(t, tracked_from, tracked_to)
      [] t.tx_type = "Withdraw" -> WithdrawEvents(t, tracked_from, tracked_to)
      [] t.tx_type = "Transfer" -> TransferEvents(t, tracked_from, tracked_to)
      [] t.tx_type \in {"FullExit", "ForcedExit"} -> ExitEvents(t)
      [] t.tx_type = "ChangePubKey" ->
           ChangePubKeyEvents(t, ChangePubKeyRecord(t))
      [] t.tx_type = "Swap" -> SwapEvents(t)
      [] OTHER -> <<>>

\* Mutant: the receiver pays a fee too.
WithFee_AlsoOnReceive(t2, events) ==
    IF t2.fee # NoFee /\ events # <<>>
    THEN Append(events,
                [event_identifier |-> ZKL_IDENTIFIER(t2.tx_hash),
                 sequence_index |-> events[Len(events)].sequence_index + 1,
                 event_type |-> events[1].event_type,
                 event_subtype |-> "FEE",
                 asset |-> t2.asset, amount |-> t2.fee,
                 location_label |-> events[1].location_label,
                 address |-> events[Len(events)].address])
    ELSE events

\* Mutant: the fee event always gets the index 1.
WithFee_IndexOne(t2, events) ==
    IF t2.fee # NoFee /\ events # <<>> /\ events[1].event_type # "RECEIVE"
    THEN Append(events,
                [event_identifier |-> ZKL_IDENTIFIER(t2.tx_hash),
                 sequence_index |-> 1,
                 event_type |-> events[1].event_type,
                 event_subtype |-> "FEE",
                 asset |-> t2.asset, amount |-> t2.fee,
                 location_label |-> events[1].location_label,
                 address |-> events[Len(events)].address])
    ELSE events

\* The trailing fee event (lines 807-830); t2 is the record as the match
\* statement left it, target is the one of the last tuple of event_data.
WithFee(t2, events) ==
    IF t2.fee # NoFee /\ events # <<>> /\ events[1].event_type # "RECEIVE"
    THEN Append(events,
                [event_identifier |-> ZKL_IDENTIFIER(t2.tx_hash),
                 sequence_index |-> events[Len(events)].sequence_index + 1,
                 event_type |-> events[1].event_type,
                 event_subtype |-> "FEE",
                 asset |-> t2.asset, amount |-> t2.fee,
                 location_label |-> events[1].location_label,
                 address |-> events[Len(events)].address])
    ELSE events

\* decode_transaction up to its write: the events, and the record it was
\* given as it is afterwards. A SWAP without swap data fails the assert of
\* line 768.
decode_transaction(transaction, tracked) ==
    IF transaction.tx_type = "Swap" /\ transaction.swap_data = NoSwap
    THEN [exc |-> "AssertionError", events |-> <<>>,
          transaction |-> transaction]
    ELSE [exc |-> "",
          events |-> WithFee(RecordAfter(transaction),
                             EventData(transaction,
                                       transaction.from_address \in tracked,
                                       transaction.to_address \in tracked)),
          transaction |-> RecordAfter(transaction)]

\* Lines 838-841: UPDATE zksynclite_transactions SET is_decoded=1 WHERE
\* tx_hash=?
SetDecoded(rows, tx_hash) ==
    {IF r.tx.tx_hash = tx_hash THEN [r EXCEPT !.is_decoded = TRUE] ELSE r :
       r \in rows}

\* Mutant: nothing is deleted.
DeleteEvents_Nothing(events, tx_hash) == events

\* Lines 863-867: DELETE FROM history_events WHERE event_identifier=?
DeleteEvents(events, tx_hash) ==
    {e \in events : e.event_identifier # ZKL_IDENTIFIER(tx_hash)}

----------------------------------------------------------------------------
(* LedgerDecoder: a record that is decoded, and decoded again, by a caller  *)
(* that keeps it: the body of the loop of decode_undecoded_transactions     *)
(* (lines 863-869) on one record (specification SpecDecode)                 *)

\* The held record is decoded at most MaxDecodes times.
MaxDecodes == 2

Addresses == {FetchAddress, OtherAddress}

\* A raw entry of type ty that has every key the normalizer reads.
DecodeEntry(ty, h, from, to, fee) ==
    [BaseEntry EXCEPT
       !.txHash = h, !.status = "finalized", !.blockNumber = 11,
       !.createdAt = 1, !.hasOp = TRUE,
       !.op = [BaseOp EXCEPT
                 !.type = ty, !.from = from, !.to = to, !.account = from,
                 !.target = to, !.token = 0, !.tokenId = 0, !.feeToken = 0,
                 !.amount = 100, !.fee = fee, !.ethHash = h,
                 !.hasOrders = TRUE,
                 !.orders = << [tokenSell |-> 0, amount |-> 100],
                               [tokenSell |-> 1, amount |-> 50] >>]]

DecodeEntries(h) ==
    {DecodeEntry(ty, h, from, to, fee) :
       ty \in TxTypes, from \in Addresses, to \in Addresses,
       fee \in {NoInt, 0, 1}}

\* The records the normalizer builds from these entries.
NormalizedRecords(h) ==
    {r.tx : r \in {x \in {_deserialize_zksync_transaction(
                              FullCache, <<>>, e, FetchAddress) :
                            e \in DecodeEntries(h)} : x.kind = "tx"}}

\* The store after _add_zksynctxs_db of the records txs, in order.
StoreOf(txs) == _add_zksynctxs_db([db |-> {}, swaps |-> {}], txs)

DecodeInit ==
    /\ FetchAtRest
    /\ ranges = [loc \in Locations |-> NoRange] /\ savePrefix = ReadPrefix
    /\ id_to_token = FullCache.ids /\ symbol_to_token = FullCache.syms
    /\ \E t \in NormalizedRecords("h1") :
         /\ dTransactions = <<t>>
         /\ db = StoreOf(<<t>>).db /\ swaps = StoreOf(<<t>>).swaps
    /\ tracked_addresses \in SUBSET Addresses
    /\ history_events = {} /\ force_redecode = TRUE
    /\ dpc = "held" /\ tx_index = 1
    /\ lastDecode = <<>> /\ decodeLog = <<>> /\ dOutcome = "" /\ nPasses = 0

\* What a decode that ended as d (without exception) writes and leaves
\* behind (lines 832-841): the events, the flag, and the record as mutated.
DecodeWrites(d) ==
    /\ history_events' = history_events \cup Range(d.events)
    /\ db' = SetDecoded(db, d.transaction.tx_hash)
    /\ dTransactions' = [dTransactions EXCEPT ![tx_index] = d.transaction]
    /\ lastDecode' = << [before |-> dTransactions[tx_index],
                         after  |-> d.transaction,
                         events |-> d.events] >>

\* The caller deletes the events stored for the record (lines 863-867).
DeleteHeldEvents ==
    /\ UNCHANGED <<fetchVars, apiVars, tokVars, singleVars, serverVars>>
    /\ dpc = "held" /\ Len(decodeLog) < MaxDecodes
    /\ history_events' =
         DeleteEvents(history_events, dTransactions[tx_index].tx_hash)
    /\ dpc' = "deleted"
    /\ UNCHANGED <<storeVars, tracked_addresses, force_redecode,
                   dTransactions, tx_index, lastDecode, decodeLog, dOutcome,
                   nPasses>>

\* decode_transaction on the held record (line 869).
DecodeHeld ==
    /\ UNCHANGED <<fetchVars, apiVars, tokVars, singleVars, serverVars>>
    /\ dpc = "deleted"
    /\ DecodeWrites(decode_transaction(dTransactions[tx_index],
                                       tracked_addresses))
    /\ decodeLog' = Append(decodeLog, lastDecode'[1].events)
    /\ dpc' = "held"
    /\ UNCHANGED <<swaps, ranges, savePrefix, id_to_token, symbol_to_token,
                   tracked_addresses, force_redecode, tx_index, dOutcome,
                   nPasses>>

NextDecode == DeleteHeldEvents \/ DecodeHeld

InitDecode == DecodeInit /\ ApiAtRest /\ TokAtRest /\ SingleAtRest

SpecDecode == InitDecode /\ [][NextDecode]_vars

----------------------------------------------------------------------------
(* LedgerDecoder: decode_undecoded_transactions, step by step               *)
(* (specification SpecBulk)                                                 *)

\* At most MaxPasses passes are made over the store.
MaxPasses == 2

\* Mutant: a SWAP takes the swap row with the smallest identifier.
RowRecord_FirstSwap(r, swp) ==
    IF r.tx.tx_type = "Swap"
    THEN [r.tx EXCEPT !.swap_data =
            << (CHOOSE x \in swp : \A y \in swp : x.tx_id <= y.tx_id).data >>]
    ELSE r.tx

\* The record of a row as get_db_transactions rebuilds it: a SWAP takes its
\* swap data from the row of zksynclite_swaps with its identifier (lines
\* 513-527).
RowRecord(r, swp) ==
    IF r.tx.tx_type = "Swap"
    THEN [r.tx EXCEPT !.swap_data =
            << (CHOOSE x \in swp : x.tx_id = r.identifier).data >>]
    ELSE r.tx

\* The loop of get_db_transactions over the rows the query selected, by
\* identifier from n on: a SWAP without its swaps row is skipped.
RECURSIVE RowsFrom(_, _, _, _)
RowsFrom(rows, swp, n, acc) ==
    IF \A r \in rows : r.identifier < n THEN acc
    ELSE IF \A r \in rows : r.identifier # n
    THEN RowsFrom(rows, swp, n + 1, acc)
    ELSE IF /\ (CHOOSE x \in rows : x.identifier = n).tx.tx_type = "Swap"
            /\ \A x \in swp : x.tx_id # n
    THEN RowsFrom(rows, swp, n + 1, acc)
    ELSE RowsFrom(rows, swp, n + 1,
                  Append(acc, RowRecord(CHOOSE x \in rows : x.identifier = n,
                                        swp)))

\* get_db_transactions with the filter of lines 853-857: every row when
\* force_redecode, else the rows with is_decoded = 0.
Get_db_transactions(rows, swp, force) ==
    RowsFrom(IF force THEN rows ELSE {r \in rows : ~r.is_decoded},
             swp, 1, <<>>)

\* The records the stores of this specification hold under hash h.
BulkRecords(h) ==
    {t \in NormalizedRecords(h) :
       /\ t.tx_type \in {"Transfer", "ChangePubKey", "Swap"}
       /\ t.fee # NoFee
       /\ t.from_address = FetchAddress}

\* The store holds two transactions, each flagged as decoded or not, and the
\* events a decode left for the flagged ones; the second one, when it is a
\* SWAP that was never decoded, may be there without its swaps row, as
\* _add_zksynctxs_db leaves it when it is interrupted between its two writes
\* (lines 471-478 and 487-492).
InitBulk ==
    /\ FetchAtRest /\ ApiAtRest /\ TokAtRest /\ SingleAtRest
    /\ ranges = [loc \in Locations |-> NoRange] /\ savePrefix = ReadPrefix
    /\ id_to_token = FullCache.ids /\ symbol_to_token = FullCache.syms
    /\ tracked_addresses \in {{}, {FetchAddress}}
    /\ \E t1 \in BulkRecords("h1"), t2 \in BulkRecords("h2"),
          flagged \in SUBSET {"h1", "h2"}, interrupted \in BOOLEAN :
         /\ interrupted => (t2.tx_type = "Swap" /\ "h2" \notin flagged)
         /\ db = {IF r.tx.tx_hash \in flagged
                  THEN [r EXCEPT !.is_decoded = TRUE] ELSE r :
                    r \in StoreOf(<<t1, t2>>).db}
         /\ swaps = IF interrupted THEN StoreOf(<<t1>>).swaps
                    ELSE StoreOf(<<t1, t2>>).swaps
         /\ history_events =
              UNION {Range(decode_transaction(t, tracked_addresses).events) :
                       t \in {x \in {t1, t2} : x.tx_hash \in flagged}}
    /\ force_redecode = FALSE
    /\ dpc = "idle" /\ dTransactions = <<>> /\ tx_index = 0
    /\ lastDecode = <<>> /\ decodeLog = <<>> /\ dOutcome = "" /\ nPasses = 0

\* Lines 853-861: the pass reads the transactions to decode.
PassStart ==
    /\ UNCHANGED <<fetchVars, apiVars, tokVars, singleVars, serverVars>>
    /\ dpc = "idle" /\ nPasses < MaxPasses
    /\ \E force \in BOOLEAN :
         /\ force_redecode' = force
         /\ dTransactions' = Get_db_transactions(db, swaps, force)
    /\ tx_index' = 1
    /\ dpc' = "loop"
    /\ decodeLog' = <<>> /\ lastDecode' = <<>> /\ dOutcome' = ""
    /\ nPasses' = nPasses + 1
    /\ UNCHANGED <<storeVars, history_events, tracked_addresses>>

\* Lines 863-867: the events stored for the next transaction are deleted.
PassDelete ==
    /\ UNCHANGED <<fetchVars, apiVars, tokVars, singleVars, serverVars>>
    /\ dpc = "loop" /\ tx_index <= Len(dTransactions)
    /\ history_events' =
         DeleteEvents(history_events, dTransactions[tx_index].tx_hash)
    /\ dpc' = "deleted"
    /\ UNCHANGED <<storeVars, tracked_addresses, force_redecode,
                   dTransactions, tx_index, lastDecode, decodeLog, dOutcome,
                   nPasses>>

\* Line 869: decode_transaction runs to its end.
PassDecode ==
    /\ UNCHANGED <<fetchVars, apiVars, tokVars, singleVars, serverVars>>
    /\ dpc = "deleted"
    /\ DecodeWrites(decode_transaction(dTransactions[tx_index],
                                       tracked_addresses))
    /\ decodeLog' = Append(decodeLog, dTransactions[tx_index].tx_hash)
    /\ tx_index' = tx_index + 1
    /\ dpc' = "loop"
    /\ UNCHANGED <<swaps, ranges, savePrefix, id_to_token, symbol_to_token,
                   tracked_addresses, force_redecode, dOutcome, nPasses>>

\* Line 869: an exception leaves decode_transaction - an asset that cannot
\* be resolved for the notes, or a storage error inside the write of lines
\* 834-841, which is then not committed - and, nothing catching it, the
\* pass.
PassDecodeFails ==
    /\ UNCHANGED <<fetchVars, apiVars, tokVars, singleVars, serverVars>>
    /\ dpc = "deleted"
    /\ \E exc \in {"UnknownAsset", "StorageError"} : dOutcome' = exc
    /\ dpc' = "idle"
    /\ UNCHANGED <<storeVars, history_events, tracked_addresses,
                   force_redecode, dTransactions, tx_index, lastDecode,
                   decodeLog, nPasses>>

\* Lines 881-891: the loop is over and the pass returns len(transactions).
PassReturn ==
    /\ UNCHANGED <<fetchVars, apiVars, tokVars, singleVars, serverVars>>
    /\ dpc = "loop" /\ tx_index > Len(dTransactions)
    /\ dOutcome' = "returned"
    /\ dpc' = "idle"
    /\ UNCHANGED <<storeVars, history_events, tracked_addresses,
                   force_redecode, dTransactions, tx_index, lastDecode,
                   decodeLog, nPasses>>

NextBulk ==
    \/ PassStart
    \/ PassDelete
    \/ PassDecode
    \/ PassDecodeFails
    \/ PassReturn

SpecBulk == InitBulk /\ [][NextBulk]_vars

----------------------------------------------------------------------------
(* IngestionOrchestrator: query_single_transaction with the insert of       *)
(* _add_zksynctxs_db, write by write (specification SpecSingle)             *)

\* A manager is asked for at most MaxCalls transactions.
MaxCalls == 3

NoResponse == [kind |-> "", entry |-> BaseEntry]

\* What _query_api can hand back for transactions/<hash>/data: RemoteError,
\* a dict without 'tx', or a dict whose 'tx' is a transfer, a swap, a swap
\* with other legs under another hash, an entry of an unknown token, or a
\* ChangePubKey, with a fee paid in TOK or without one.
SingleResponses ==
    {[kind |-> "raise", entry |-> BaseEntry],
     [kind |-> "notx", entry |-> BaseEntry]}
      \cup {[kind |-> "tx", entry |-> e] :
              e \in {RowA, RowNFT,
                     [DecodeEntry("ChangePubKey", "h3", FetchAddress,
                                  NoKey, 3)
                        EXCEPT !.op.from = NoKey, !.op.feeToken = 1],
                     [DecodeEntry("ChangePubKey", "h4", FetchAddress,
                                  NoKey, 0)
                        EXCEPT !.op.from = NoKey, !.op.feeToken = 1],
                     DecodeEntry("Swap", "h1", FetchAddress, FetchAddress, 1),
                     [DecodeEntry("Swap", "h2", FetchAddress, FetchAddress, 1)
                        EXCEPT !.op.orders =
                          << [tokenSell |-> 1, amount |-> 70],
                             [tokenSell |-> 0, amount |-> 300] >>]}}

\* Mutant: leaving the with block does not end the write transaction.
ReleaseWrite_StillHeld(lock) == lock

\* The end of a 'with self.database.user_write()' block (lines 471-478): the
\* write transaction is over, committed or rolled back.
ReleaseWrite(lock) == FALSE

\* Mutant: the swap row is stored under the identifier after the one read.
InsertSwapRow_NextId(swp, identifier, transaction) ==
    swp \cup {[tx_id |-> identifier + 1, data |-> transaction.swap_data[1]]}

\* Lines 479-492: the row of zksynclite_swaps of a SWAP, under the identifier
\* of the row just inserted.
InsertSwapRow(swp, identifier, transaction) ==
    swp \cup {[tx_id |-> identifier, data |-> transaction.swap_data[1]]}

InitSingle ==
    /\ FetchAtRest /\ ApiAtRest /\ TokAtRest /\ DecAtRest
    /\ db = {} /\ swaps = {}
    /\ ranges = [loc \in Locations |-> NoRange] /\ savePrefix = ReadPrefix
    /\ \E c \in {NoCache, FullCache} :
         id_to_token = c.ids /\ symbol_to_token = c.syms
    /\ spc = "idle" /\ sResponse = NoResponse /\ sTx = NoTx /\ sOutcome = ""
    /\ lastrowid = 0 /\ write_lock = FALSE /\ nCalls = 0

\* query_single_transaction is called: _query_api is entered (line 451) and
\* its requests and backoff sleeps are in progress.
SingleCall ==
    /\ UNCHANGED <<fetchVars, apiVars, tokVars, decVars, serverVars>>
    /\ spc \in {"idle", "done"} /\ nCalls < MaxCalls
    /\ spc' = "request"
    /\ sResponse' = NoResponse /\ sTx' = NoTx /\ sOutcome' = ""
    /\ lastrowid' = 0
    /\ nCalls' = nCalls + 1
    /\ UNCHANGED <<storeVars, write_lock>>

\* Lines 451-458: _query_api raised RemoteError or handed back a dict
\* without 'tx', and None is returned; or the entry is there.
SingleAnswer ==
    /\ UNCHANGED <<fetchVars, apiVars, tokVars, decVars, serverVars>>
    /\ spc = "request"
    /\ \E resp \in SingleResponses :
         /\ sResponse' = resp
         /\ spc' = IF resp.kind = "tx" THEN "deserialize" ELSE "done"
         /\ sOutcome' = IF resp.kind = "tx" THEN "" ELSE "None"
    /\ UNCHANGED <<storeVars, sTx, lastrowid, write_lock, nCalls>>

\* Lines 460-471: the entry is normalized, with the token listing requests
\* this makes on an empty directory; None ends the call, an exception leaves
\* it, and a record takes it into the first write of _add_zksynctxs_db.
SingleDeserialize ==
    /\ UNCHANGED <<fetchVars, apiVars, tokVars, decVars, serverVars>>
    /\ spc = "deserialize"
    /\ \E listing \in ListingsFor(Cache) :
         LET r == _deserialize_zksync_transaction(
                      Cache, listing, sResponse.entry, FetchAddress) IN
         /\ id_to_token' = r.cache.ids /\ symbol_to_token' = r.cache.syms
         /\ sTx' = r.tx
         /\ spc' = IF r.kind = "tx" THEN "insert_tx" ELSE "done"
         /\ sOutcome' = CASE r.kind = "tx"   -> ""
                          [] r.kind = "none" -> "None"
                          [] OTHER           -> r.exc
         /\ write_lock' = (r.kind = "tx")
    /\ UNCHANGED <<db, swaps, ranges, savePrefix, sResponse, lastrowid,
                   nCalls>>

\* Lines 471-479 and 493-495: the INSERT of the transaction row is committed,
\* or it raises IntegrityError on a stored hash and the loop goes on to its
\* end; a SWAP goes on to its second write.
SingleInsertTx ==
    /\ UNCHANGED <<fetchVars, apiVars, tokVars, decVars, serverVars>>
    /\ spc = "insert_tx"
    /\ write_lock' = ReleaseWrite(write_lock)
    /\ IF sTx.tx_hash \in HashesOf(db)
       THEN /\ spc' = "done" /\ sOutcome' = "tx"
            /\ UNCHANGED <<db, lastrowid>>
       ELSE /\ db' = db \cup {[identifier |-> NextIdentifier(db),
                               tx |-> [sTx EXCEPT !.swap_data = NoSwap],
                               is_decoded |-> FALSE]}
            /\ lastrowid' = NextIdentifier(db)
            /\ spc' = IF sTx.tx_type = "Swap" THEN "read_id" ELSE "done"
            /\ sOutcome' = IF sTx.tx_type = "Swap" THEN "" ELSE "tx"
    /\ UNCHANGED <<swaps, ranges, savePrefix, id_to_token, symbol_to_token,
                   sResponse, sTx, nCalls>>

\* Lines 480-492 and 466: the identifier is read back, the swap row is
\* written in a write of its own, and the record is returned.
SingleInsertSwap ==
    /\ UNCHANGED <<fetchVars, apiVars, tokVars, decVars, serverVars>>
    /\ spc = "read_id"
    /\ swaps' = InsertSwapRow(swaps, lastrowid, sTx)
    /\ write_lock' = ReleaseWrite(TRUE)
    /\ spc' = "done" /\ sOutcome' = "tx"
    /\ UNCHANGED <<db, ranges, savePrefix, id_to_token, symbol_to_token,
                   sResponse, sTx, lastrowid, nCalls>>

\* The process is killed, or the storage fails, while the call is in
\* progress: a write that was not committed is rolled back, and the manager
\* that is built afterwards has an empty token directory.
SingleCrash ==
    /\ UNCHANGED <<fetchVars, apiVars, tokVars, decVars, serverVars>>
    /\ spc \in {"request", "deserialize", "insert_tx", "read_id"}
    /\ spc' = "done" /\ sOutcome' = "crashed"
    /\ write_lock' = FALSE
    /\ id_to_token' = EmptyDict /\ symbol_to_token' = EmptyDict
    /\ UNCHANGED <<db, swaps, ranges, savePrefix, sResponse, sTx, lastrowid,
                   nCalls>>

NextSingle ==
    \/ SingleCall
    \/ SingleAnswer
    \/ SingleDeserialize
    \/ SingleInsertTx
    \/ SingleInsertSwap
    \/ SingleCrash

SpecSingle == InitSingle /\ [][NextSingle]_vars

----------------------------------------------------------------------------
(* Properties of fetch_transactions and its walks (specification Spec)      *)

ReadLocation == Location(ReadPrefix, FetchAddress)

\* C1: fetch_transactions never raises a remote failure. A step in which a
\* page request (or a token-listing request made while a page is normalized)
\* fails with RemoteError ends the call normally and leaves every stored
\* row and every stored range as it was; no step of the call ever removes a
\* row or a range.
C1_RemoteFailureIsCaught ==
    [][ /\ outcome' # "RemoteError"
        /\ db \subseteq db' /\ swaps \subseteq swaps'
        /\ \A loc \in Locations : ranges[loc] # NoRange => ranges'[loc] # NoRange
        /\ (fpc = "walking" /\ lastStep'.exc = "RemoteError")
             => /\ fpc' = "done" /\ outcome' = "returned"
                /\ db' = db /\ swaps' = swaps /\ ranges' = ranges ]_vars

\* C1 witness: the second walk of a call failed with RemoteError after it
\* had persisted a batch, and the call returned.
C1_Witness ==
    /\ fpc = "done" /\ outcome = "returned" /\ lastStep.exc = "RemoteError"
    /\ Len(walkLog) = 2 /\ handed # EmptyBag
    /\ \A tx \in BagToSet(handed) : tx.tx_hash \in HashesOf(db)

\* C2: the walks of a call are chosen from the range read under the key of
\* the address: none recorded -> one walk, older, from 'latest', bounds
\* (start_ts, end_ts); nonzero lower bound -> two walks, older then newer;
\* lower bound zero -> one walk, newer. The walks begun are the chosen ones
\* in order, and a call that no exception ended has made all of them.
C2_WalksChosenFromRange ==
    fpc \in {"between", "walking", "done"} =>
        LET all == walkLog \o plan IN
        /\ (fpc = "between" /\ walkLog = <<>>)
             => queried_range = ranges[ReadLocation]
        /\ IF queried_range = NoRange
           THEN all = << Walk(StartTs, EndTs, "latest", "older") >>
           ELSE IF queried_range[1] # 0
           THEN /\ Len(all) = 2
                /\ all[1].direction = "older" /\ all[2].direction = "newer"
           ELSE Len(all) = 1 /\ all[1].direction = "newer"
        /\ (fpc = "done" /\ lastStep.exc = "") => plan = <<>>

\* C2 witness: a call on a range with nonzero lower bound has made its two
\* walks and returned.
C2_Witness ==
    /\ fpc = "done" /\ outcome = "returned" /\ lastStep.exc = ""
    /\ queried_range # NoRange /\ queried_range[1] # 0
    /\ Len(walkLog) = 2 /\ walkLog[1].direction = "older"

\* C3 (as claimed): with a transaction stored locally, a forward walk
\* starts from the hash of the newest stored transaction with its timestamp
\* as start bound, and the backward walk of the two-walk case starts from
\* the hash of the oldest stored transaction with its timestamp as end bound.
C3_WalksStartFromLocalExtremes ==
    (fpc = "between" /\ walkLog = <<>> /\ db # {}) =>
        \A i \in 1..Len(plan) :
            /\ plan[i].direction = "newer" =>
                 \E m \in MaxRows(db) : /\ plan[i].from_hash = m.tx_hash
                                        /\ plan[i].start_ts = m.timestamp
            /\ (plan[i].direction = "older" /\ Len(plan) = 2) =>
                 \E m \in MinRows(db) : /\ plan[i].from_hash = m.tx_hash
                                        /\ plan[i].end_ts = m.timestamp

\* Number of transactions of batch b that carry hash h.
CountHash(b, h) == Cardinality({i \in 1..Len(b) : b[i].tx_hash = h})

\* The last two pages of the walk were both yielded and overlap in exactly
\* the boundary row: the first row of the later page has the hash of the last
\* row of the earlier one, and no other row of the two pages has it.
BoundaryOverlap ==
    /\ fpc \in {"walking", "between"} /\ lastStep.kind \in {"batch", "empty"}
    /\ prevPage # <<>> /\ curPage # <<>>
    /\ curPage[1].txHash # NoKey
    /\ curPage[1].txHash = prevPage[Len(prevPage)].txHash
    /\ \A i \in 1..(Len(prevPage) - 1) : prevPage[i].txHash # curPage[1].txHash
    /\ \A i \in 2..Len(curPage) : curPage[i].txHash # curPage[1].txHash

\* C4: the boundary row of two overlapping consecutive pages is never
\* yielded twice, and it is yielded once whenever the row can be normalized
\* with the token directory the manager holds.
C4_BoundaryRowOnce ==
    BoundaryOverlap =>
        LET h == curPage[1].txHash
            n == CountHash(prevBatch \o curBatch, h)
        IN  /\ n <= 1
            /\ _deserialize_zksync_transaction(
                   Cache, <<>>, curPage[1], FetchAddress).kind = "tx"
                 => n = 1

\* C4 witness: the boundary row was yielded with the earlier page and
\* dropped from the later one.
C4_Witness ==
    /\ BoundaryOverlap
    /\ CountHash(prevBatch, curPage[1].txHash) = 1
    /\ CountHash(curBatch, curPage[1].txHash) = 0
    /\ Len(curPage) = 2

\* C5: no transaction is handed to the storage insert twice by one walk.
C5_HandedOncePerWalk ==
    \A tx \in BagToSet(handed) : CopiesIn(tx, handed) = 1

\* C5 witness: a batch held a transaction this walk had already persisted,
\* and it was taken out before the insert.
C5_Witness ==
    /\ lastStep.kind = "batch"
    /\ \E tx \in Range(curBatch) : tx \notin lastStep.unique
    /\ lastStep.unique # {}

\* C6: a batch insert skips each transaction whose hash is already stored,
\* leaves the stored rows as they are, inserts every other transaction of
\* the batch, and hands no error to the walk.
C6_DuplicateSkippedBatchContinues ==
    [][ (fpc = "walking" /\ lastStep'.kind = "batch") =>
          /\ db \subseteq db'
          /\ \A tx \in lastStep'.unique :
               /\ tx.tx_hash \in HashesOf(db')
               /\ tx.tx_hash \in HashesOf(db) =>
                    {r \in db' : r.tx.tx_hash = tx.tx_hash}
                      = {r \in db : r.tx.tx_hash = tx.tx_hash}
               /\ tx.tx_hash \notin HashesOf(db) =>
                    \E r \in db' \ db : r.tx = tx
          /\ lastStep'.exc \in {"", "KeyError"}
          /\ lastStep'.exc = "" => fpc' \in {"walking", "between"} ]_vars

\* C6 witness: a batch of RowA and RowB was inserted into a store that held
\* RowA: the stored row of RowA is still the one of identifier 1, and RowB
\* got a row of its own.
C6_Witness ==
    /\ lastStep.kind = "batch"
    /\ lastStep.unique = {TxOf(RowA), TxOf(RowB)}
    /\ db = {StoredRow(1, RowA), StoredRow(2, RowB)}

\* C9 (as claimed): no exception leaves the walk because of a raw entry that
\* lacks a key or names an asset that cannot be resolved.
C9_BadEntryNeverAbortsWalk ==
    outcome \notin {"KeyError", "IndexError"}

\* C11: a step that persists a non-empty batch submits to the range
\* store, under the walk's key, (timestamp of the batch's last item, the
\* walk's end bound) when the walk goes older and (the walk's start bound,
\* timestamp of the batch's last item) when it goes newer; a step whose
\* batch is empty submits nothing and leaves the range store as it is.
C11_WatermarkFollowsDirection ==
    [][ fpc = "walking" =>
          /\ lastStep'.kind = "empty" =>
                lastStep'.submitted = NoRange /\ ranges' = ranges
          /\ lastStep'.kind = "batch" =>
                LET last_ts == curBatch'[Len(curBatch')].timestamp IN
                /\ lastStep'.submitted =
                      IF walk.direction = "older"
                      THEN <<last_ts, walk.end_ts>>
                      ELSE <<walk.start_ts, last_ts>>
                /\ ranges'[Location(savePrefix, FetchAddress)]
                      = lastStep'.submitted
                /\ <<current_start_ts', current_end_ts'>>
                      = lastStep'.submitted ]_vars

\* C11 witness: the second batch of an older walk was persisted and its
\* submitted range keeps the end bound of the walk.
C11_Witness ==
    /\ lastStep.kind = "batch" /\ walk.direction = "older" /\ nPages = 2
    /\ prevBatch # <<>>
    /\ lastStep.submitted = <<curBatch[Len(curBatch)].timestamp, walk.end_ts>>
    /\ lastStep.submitted[1] # walk.start_ts

\* C12 (as claimed): unless a remote failure ended the walk, a page shorter
\* than the limit is yielded and the walk ends without a further request,
\* and a full page is yielded and followed by a request whose cursor is the
\* hash of its last row.
C12_RequestIffFullPage ==
    (lastStep.kind \in {"batch", "empty", "raise"}
       /\ lastStep.exc # "RemoteError") =>
        /\ lastStep.kind # "raise"
        /\ IF Len(curPage) < ZKSYNCLITE_MAX_LIMIT
           THEN fpc \in {"between", "done"} /\ lastStep.exc = ""
           ELSE /\ fpc = "walking"
                /\ from_hash = curPage[Len(curPage)].txHash

OwnRows(rows) ==
    {r \in rows : FetchAddress \in {r.tx.from_address, r.tx.to_address}}

\* The walks fetch_transactions could plan from the rows given.
PlansFrom(rows, qr) ==
    {FetchPlan(qr, FetchLocals(minrow, maxrow, StartTs, EndTs),
               StartTs, EndTs) :
       minrow \in MinRows(rows), maxrow \in MaxRows(rows)}

\* C32 (as claimed): the walks fetch_transactions plans for the address are
\* those it would plan if storage held the transactions of the address
\* only.
C32_WalksFromOwnRowsOnly ==
    [][ (fpc = "idle" /\ fpc' = "between") =>
           plan' \in PlansFrom(OwnRows(db), queried_range') ]_vars

\* The rows of the history that a request with this cursor has still ahead
\* of it, the cursor row included.
RowsAhead(hist, from, direction) ==
    IF CursorOf(hist, from, direction) = 0 THEN 0
    ELSE Len(hist) + 1 - CursorOf(hist, from, direction)

\* C33: against a server with a finite history that answers the rows from
\* the cursor row on, every walk ends after finitely many page requests:
\* each page request after which the walk goes on leaves fewer rows ahead
\* of the cursor than there were, a walk that goes on can always make its
\* next request, and a walk that no exception ended has ended on a page
\* shorter than the limit.
C33_EveryWalkTerminates ==
    [][ /\ (fpc = "walking" /\ fpc' = "walking") =>
             /\ nPages' = nPages + 1
             /\ RowsAhead(history, from_hash', walk.direction)
                  < RowsAhead(history, from_hash, walk.direction)
        /\ fpc' = "walking" => nPages' < MaxPages
        /\ (fpc = "walking" /\ fpc' # "walking" /\ lastStep'.exc = "") =>
             Len(curPage') < ZKSYNCLITE_MAX_LIMIT
      ]_vars

\* C33 witness: a walk over a history of three transactions ended on its
\* third page, after two full ones.
C33_Witness ==
    /\ fpc = "between" /\ walkLog # <<>> /\ lastStep.exc = ""
    /\ Len(history) = 3 /\ nPages = 3
    /\ Len(prevPage) = ZKSYNCLITE_MAX_LIMIT
    /\ Len(curPage) < ZKSYNCLITE_MAX_LIMIT

----------------------------------------------------------------------------
(* Properties of _query_api and of a walk on top of it (SpecApi)            *)

\* The sleeps of a call that is answered 429 every time.
RECURSIVE Doubling(_, _)
Doubling(s, i) ==
    IF i > Len(s) THEN TRUE
    ELSE /\ s[i] = (IF i = 1 THEN 1 ELSE 2 * s[i - 1])
         /\ s[i] <= backoff_limit
         /\ Doubling(s, i + 1)

\* C7 (as claimed): a _query_api call answered 429 at every attempt sleeps
\* 1, 2, 4, ... with no sleep above the ceiling and then raises RemoteError:
\* it never returns a value to its caller.
C7_Always429Raises ==
    apiMode = "always429" =>
        /\ Doubling(sleeps, 1)
        /\ apiPc # "returned"

\* C8: against a server that answers 429 to every request, a walk makes
\* finitely many requests - one per sleep of the single _query_api call it
\* makes, none once backoff has reached the ceiling -, yields no batch and
\* ends by raising RemoteError.
C8_WalkOn429EndsWithRemoteError ==
    (apiMode = "always429") =>
        /\ [](/\ callerBatches = 0
              /\ callerOutcome \in {"", "RemoteError"}
              /\ nRequests = Len(sleeps)
              /\ Doubling(sleeps, 1)
              /\ (backoff >= backoff_limit =>
                    /\ sleeps # <<>>
                    /\ backoff = 2 * sleeps[Len(sleeps)]
                    /\ ~ENABLED ApiAttempt)
              /\ (callerOutcome = "RemoteError" => ~ENABLED NextApi))
        /\ <>(callerOutcome = "RemoteError")

\* C8 witness: the walk has raised RemoteError after the backoff of its
\* request ran up to the ceiling.
C8_Witness ==
    /\ apiMode = "always429" /\ callerOutcome = "RemoteError"
    /\ sleeps = <<1, 2, 4, 8, 16, 32>> /\ nRequests = 6 /\ callerBatches = 0

----------------------------------------------------------------------------
(* Properties of the token directory (SpecTokens)                           *)

\* C10 (as claimed): once a token-listing pagination has run to completion,
\* no later lookup by id or by symbol makes a listing request, whatever the
\* listing contained, and a lookup of a key that is not cached returns
\* absent.
C10_NoListingAfterCompletion ==
    tokDone =>
        /\ tokLate = 0
        /\ (tokAnswer.state = "ok"
              /\ MappingGet(TokCache, tokAnswer.kind, tokAnswer.key) = NoAsset
              => tokAnswer.asset = NoAsset)

\* C31 (as claimed): a lookup whose token listing ended in RemoteError, after
\* whatever number of pages, leaves both dicts empty, so that the next
\* lookup runs the listing again.
C31_FailedListingLeavesCacheEmpty ==
    (tokPc = "idle" /\ tokAnswer.state = "RemoteError") =>
        /\ id_to_token = EmptyDict /\ symbol_to_token = EmptyDict
        /\ MappingIsEmpty(TokCache, "id") /\ MappingIsEmpty(TokCache, "symbol")

\* C27: a session.get that comes back with a status that is neither 200 nor
\* 429, with a body that is no JSON or with JSON without 'result' makes
\* _query_api raise RemoteError in that very pass of its loop, without a
\* sleep; after it the call makes no request and no sleep, and the loop that
\* called it ends with RemoteError.
C27_FatalAnswerRaisesAtOnce ==
    [][ /\ (nRequests' # nRequests
              /\ lastHttp' \in {"non200", "badjson", "noresult"})
             => /\ apiPc' = "raised" /\ apiResult' = RespRaise
                /\ sleeps' = sleeps /\ backoff' = backoff
        /\ lastHttp \in {"non200", "badjson", "noresult"}
             => /\ nRequests' = nRequests /\ sleeps' = sleeps
                /\ apiPc' = "caller" => callerOutcome' = "RemoteError"
      ]_vars

\* C27 witness: after two backoff sleeps the third request of a call came
\* back with a body that is no JSON, and the call raised.
C27_Witness ==
    /\ lastHttp = "badjson" /\ apiPc = "raised"
    /\ sleeps = <<1, 2>> /\ nRequests = 3

----------------------------------------------------------------------------
(* Properties of decode_transaction (SpecDecode)                            *)

\* What an event set is compared by.
EventKey(e) == <<e.event_type, e.event_subtype, e.asset, e.amount,
                 e.sequence_index>>

EventKeys(events) == [i \in 1..Len(events) |-> EventKey(events[i])]

\* C13 (as claimed): two decodes of the same record with the same tracked
\* addresses, the events of its identifier deleted before each, emit the
\* same number of events with the same type, subtype, asset, amount and
\* sequence index, for every transaction type.
C13_DecodeTwiceSameEvents ==
    Len(decodeLog) = 2 => EventKeys(decodeLog[1]) = EventKeys(decodeLog[2])

\* The last decode, once there was one.
Decoded == lastDecode # <<>>
LastBefore == lastDecode[1].before
LastEvents == lastDecode[1].events
TrackedFrom == LastBefore.from_address \in tracked_addresses
TrackedTo == LastBefore.to_address \in tracked_addresses

IsFeeEvent(e) == e.event_subtype = "FEE"
IsPrimaryEvent(e) == e.event_subtype # "FEE"

C17_SwapLegsThenFee ==
    (Decoded /\ LastBefore.tx_type = "Swap") =>
        LET sd == LastBefore.swap_data[1] IN
        /\ Len(LastEvents) >= 2
        /\ EventKey(LastEvents[1])
             = <<"TRADE", "SPEND", sd.from_asset, sd.from_amount, 0>>
        /\ EventKey(LastEvents[2])
             = <<"TRADE", "RECEIVE", sd.to_asset, sd.to_amount, 1>>
        /\ LastBefore.fee # NoFee =>
             /\ Len(LastEvents) = 3
             /\ EventKey(LastEvents[3])
                  = <<"TRADE", "FEE", LastBefore.asset, LastBefore.fee, 2>>
        /\ LastBefore.fee = NoFee => Len(LastEvents) = 2

\* C17 witness: a Swap with a fee was decoded with no address tracked.
C17_Witness ==
    /\ Decoded /\ LastBefore.tx_type = "Swap" /\ LastBefore.fee # NoFee
    /\ tracked_addresses = {} /\ Len(LastEvents) = 3

\* C18: a ChangePubKey with a fee emits exactly one event, SPEND/FEE with
\* the fee as amount, and no trailing fee event; without a fee it emits
\* none.
C18_ChangePubKeyFeeOnce ==
    (Decoded /\ LastBefore.tx_type = "ChangePubKey") =>
        IF FeeIsSet(LastBefore.fee)
        THEN /\ Len(LastEvents) = 1
             /\ EventKey(LastEvents[1])
                  = <<"SPEND", "FEE", LastBefore.asset, LastBefore.fee, 0>>
        ELSE LastEvents = <<>>

\* C18 witness: a ChangePubKey with a fee was decoded into its one event.
C18_Witness ==
    /\ Decoded /\ LastBefore.tx_type = "ChangePubKey"
    /\ FeeIsSet(LastBefore.fee) /\ Len(LastEvents) = 1

\* C19: a Transfer emits exactly one primary event, TRANSFER when both
\* addresses are tracked, SPEND when only from is, RECEIVE when only to is,
\* and no event at all when neither is.
C19_TransferByTrackedStatus ==
    (Decoded /\ LastBefore.tx_type = "Transfer") =>
        LET primary == SelectSeq(LastEvents, IsPrimaryEvent) IN
        IF ~TrackedFrom /\ ~TrackedTo THEN LastEvents = <<>>
        ELSE /\ Len(primary) = 1
             /\ LastEvents[1] = primary[1]
             /\ primary[1].event_type =
                  CASE TrackedFrom /\ TrackedTo -> "TRANSFER"
                    [] TrackedFrom              -> "SPEND"
                    [] OTHER                    -> "RECEIVE"

\* C19 witness: a transfer between two tracked addresses became a TRANSFER.
C19_Witness ==
    /\ Decoded /\ LastBefore.tx_type = "Transfer"
    /\ LastBefore.from_address # LastBefore.to_address
    /\ TrackedFrom /\ TrackedTo
    /\ LastEvents[1].event_type = "TRANSFER"

\* C20: a Deposit emits nothing unless its to address is tracked, a Withdraw
\* nothing unless its from address is tracked, and a ForcedExit or FullExit
\* emits exactly one primary event, INFORMATIONAL, tracked or not.
C20_BridgeAndExitEvents ==
    Decoded =>
        LET primary == SelectSeq(LastEvents, IsPrimaryEvent) IN
        /\ (LastBefore.tx_type = "Deposit" /\ ~TrackedTo)
             => LastEvents = <<>>
        /\ (LastBefore.tx_type = "Withdraw" /\ ~TrackedFrom)
             => LastEvents = <<>>
        /\ LastBefore.tx_type \in {"ForcedExit", "FullExit"} =>
             /\ Len(primary) = 1
             /\ LastEvents[1] = primary[1]
             /\ primary[1].event_type = "INFORMATIONAL"

\* C20 witness: a deposit whose sender alone is tracked was decoded into
\* nothing.
C20_Witness ==
    /\ Decoded /\ LastBefore.tx_type = "Deposit"
    /\ TrackedFrom /\ ~TrackedTo /\ LastEvents = <<>>

\* C21 (as claimed): decode_transaction leaves the record it is given as it
\* was: type, amount, fee, addresses, asset and swap data after the decode
\* equal those before it, for every transaction type.
C21_RecordUnchanged ==
    Decoded => lastDecode[1].after = LastBefore

\* C34: the events of one decode carry the sequence indices 0, 1, ..., n-1
\* in the order they were emitted, and a fee event is the last of them.
C34_SequenceIndices ==
    Decoded =>
        /\ \A i \in 1..Len(LastEvents) : LastEvents[i].sequence_index = i - 1
        /\ \A i \in 1..Len(LastEvents) :
             IsFeeEvent(LastEvents[i]) => i = Len(LastEvents)

\* C34 witness: a swap with a fee was decoded into its two legs and the fee
\* event, with the indices 0, 1 and 2.
C34_Witness ==
    /\ Decoded /\ LastBefore.tx_type = "Swap" /\ Len(LastEvents) = 3
    /\ LastEvents[3].event_subtype = "FEE"
    /\ LastEvents[3].sequence_index = 2

----------------------------------------------------------------------------
(* Properties of decode_undecoded_transactions (SpecBulk)                   *)

\* The stored events of the transaction the pass is at.
EventsAt(events) ==
    {e \in events :
       e.event_identifier = ZKL_IDENTIFIER(dTransactions[tx_index].tx_hash)}

\* C14: when a transaction is decoded no event is stored under its
\* identifier any more; a decode that ends leaves exactly its own events
\* there and the flag of the transaction set, in one step; a decode that
\* fails changes no flag; and no other step changes a flag.
C14_DeleteThenInsertThenFlag ==
    [][ /\ dpc = "deleted" =>
             /\ EventsAt(history_events) = {}
             /\ IF dpc' = "loop"
                THEN /\ EventsAt(history_events')
                          = Range(lastDecode'[1].events)
                     /\ \A r \in db' :
                          r.tx.tx_hash = dTransactions[tx_index].tx_hash
                            => r.is_decoded
                ELSE db' = db /\ history_events' = history_events
        /\ db' # db => dpc = "deleted" /\ dpc' = "loop" ]_vars

\* C14 witness: in a forced second pass a transaction that was flagged, with
\* events stored, has been decoded again and its events are the new ones.
C14_Witness ==
    /\ force_redecode /\ dpc = "loop" /\ tx_index = 2 /\ nPasses = 2
    /\ lastDecode # <<>> /\ lastDecode[1].events # <<>>
    /\ {e \in history_events :
          e.event_identifier = ZKL_IDENTIFIER(dTransactions[1].tx_hash)}
         = Range(lastDecode[1].events)

\* C15 (as claimed): when the decode of one transaction of a pass fails,
\* the transactions after it in the pass are still decoded and flagged.
C15_FailureDoesNotStopPass ==
    (dpc = "idle" /\ dOutcome \in {"UnknownAsset", "StorageError"}) =>
        \A i \in (tx_index + 1)..Len(dTransactions) :
            /\ dTransactions[i].tx_hash \in Range(decodeLog)
            /\ \A r \in db :
                 r.tx.tx_hash = dTransactions[i].tx_hash => r.is_decoded

\* The hashes of the transactions the pass holds.
PassHashes(txs) == [i \in 1..Len(txs) |-> txs[i].tx_hash]

\* C26 (as claimed): a pass that is not forced takes exactly the stored
\* transactions whose flag is unset, a forced pass all of them; a pass that
\* returns has
\* decoded every transaction it took, its return value len(transactions) is
\* their number, and each of them is flagged, also those without events; the
\* non-forced pass that follows a pass that returned takes nothing.
C26_PassDecodesPendingOrAll ==
    [][ /\ (dpc = "idle" /\ dpc' = "loop") =>
             /\ Range(PassHashes(dTransactions')) =
                  HashesOf(IF force_redecode' THEN db
                           ELSE {r \in db : ~r.is_decoded})
             /\ Len(dTransactions') =
                  Cardinality(Range(PassHashes(dTransactions')))
             /\ (dOutcome = "returned" /\ ~force_redecode')
                  => dTransactions' = <<>>
        /\ dOutcome' = "returned" =>
             /\ decodeLog' = PassHashes(dTransactions')
             /\ \A r \in db' :
                  r.tx.tx_hash \in Range(decodeLog') => r.is_decoded
      ]_vars

\* C29 (as claimed): whenever no pass is in progress, a transaction whose
\* flag is set has the events of its decode in the event store.
C29_FlagImpliesEvents ==
    dpc = "idle" =>
        \A r \in db : r.is_decoded =>
            {e \in history_events :
               e.event_identifier = ZKL_IDENTIFIER(r.tx.tx_hash)}
              = Range(decode_transaction(RowRecord(r, swaps),
                                         tracked_addresses).events)

----------------------------------------------------------------------------
(* Properties of query_single_transaction and of the insert (SpecSingle)    *)

\* C22: every row of zksynclite_swaps refers to a stored SWAP transaction
\* row, in every state, a crash at any point of the insert included.
C22_NoOrphanedSwapRow ==
    \A s \in swaps :
        \E r \in db : r.identifier = s.tx_id /\ r.tx.tx_type = "Swap"

\* C22 witness: the process was killed between the two writes of a SWAP
\* while the swap row of an earlier SWAP is stored.
C22_Witness ==
    /\ spc = "done" /\ sOutcome = "crashed" /\ swaps # {}
    /\ \E r \in db : r.tx.tx_type = "Swap"
                      /\ \A s \in swaps : s.tx_id # r.identifier

C25_SingleLookupNeverRaises ==
    /\ sOutcome \in {"", "None", "tx", "crashed"}
    /\ sOutcome = "tx" => sTx.tx_hash \in HashesOf(db)

\* C30 (as claimed): whenever no insert is in progress, every stored SWAP
\* row has its row in zksynclite_swaps and is returned by
\* get_db_transactions.
C30_EverySwapHasItsLegs ==
    spc \in {"idle", "done"} =>
        \A r \in db : r.tx.tx_type = "Swap" =>
            /\ \E s \in swaps : s.tx_id = r.identifier
            /\ r.tx.tx_hash
                 \in Range(PassHashes(Get_db_transactions(db, swaps, TRUE)))

\* A ChangePubKey entry came back from the normalizer as a record.
ChangePubKeyBuilt ==
    /\ spc \in {"insert_tx", "done"} /\ sTx # NoTx
    /\ sResponse.entry.op.type = "ChangePubKey"

\* What the claim and the code agree on: from is op.account, there is no to
\* address, and the asset is the token of op.feeToken.
ChangePubKeyParties ==
    /\ sTx.tx_type = "ChangePubKey"
    /\ sTx.from_address = sResponse.entry.op.account
    /\ sTx.to_address = NoneAddr
    /\ sTx.asset = DictGet(FullCache.ids, sResponse.entry.op.feeToken)

\* C35 (as claimed): the record of a ChangePubKey entry has the scaled value
\* of op.fee as its amount.
C35_ChangePubKeyFeeAsAmount ==
    ChangePubKeyBuilt =>
        /\ ChangePubKeyParties
        /\ sTx.amount = asset_normalized_value(sResponse.entry.op.fee,
                                               sTx.asset)

\* C35 (amended): the record of a ChangePubKey entry has from = op.account,
\* no to address, the token of op.feeToken as asset, the amount zero, and
\* the scaled value of op.fee as its fee, or no fee when op.fee is 0.
C35_ChangePubKeyFeeInFeeField ==
    ChangePubKeyBuilt =>
        /\ ChangePubKeyParties
        /\ sTx.amount = ZERO
        /\ sTx.fee = IF sResponse.entry.op.fee = 0 THEN NoFee
                     ELSE asset_normalized_value(sResponse.entry.op.fee,
                                                 sTx.asset)

\* C35 witness: a ChangePubKey entry with a fee of 3 units of TOK was
\* normalized and stored.
C35_Witness ==
    /\ ChangePubKeyBuilt /\ spc = "done" /\ sOutcome = "tx"
    /\ sTx.asset = "TOK" /\ sTx.fee # NoFee /\ sTx.fee # ZERO
    /\ sTx.tx_hash \in HashesOf(db)

====
